---- MODULE Spec2Model ----
(***************************************************************************)
(* State-machine model of the legacy JSON-RPC command core of vhcwallet    *)
(* (package legacyrpc, src/unnamed/part_000): the dispatcher closure       *)
(* (lazyApplyHandler), signRawTransaction, and the multisig redemption     *)
(* handlers (redeemMultiSigOut, redeemMultiSigOuts).                       *)
(*                                                                         *)
(* One request is in flight at a time; pc is the position of that request  *)
(* inside its handler.  Collaborators outside the package (the wallet, the *)
(* consensus RPC client, the JSON command parser) are modelled by the      *)
(* outcomes they can hand back, drawn with \E.                             *)
(***************************************************************************)
EXTENDS Integers, Sequences, FiniteSets, TLC

VARIABLES
    pc,            \* position of the request in flight
    caller,        \* who invoked signRawTransaction: "rpc" or "redeem"
    walletLoaded,  \* s.walletLoader.LoadedWallet() ok
    backend,       \* s.walletLoader.NetworkBackend(): "none", "spv" or "rpc"
    srtCmd,        \* the SignRawTransactionCmd
    tx,            \* decoded transaction: sequence of [prev, sig]
    hashType,      \* txscript.SigHashType chosen by the flag switch
    inputs,        \* map[wire.OutPoint][]byte
    scripts,       \* map[string][]byte, keyed by the script itself
    requested,     \* map[wire.OutPoint]FutureGetTxOutResult (future ids)
    futures,       \* every GetTxOutAsync issued: sequence of [op, got]
    idx,           \* loop index of the lookup fan-out
    toReceive,     \* keys of requested the range loop has not visited yet
    keys,          \* map of decoded WIF keys ("nil" when PrivKeys is nil)
    signCalls,     \* invocations of w.SignTransaction
    signErrs,      \* what w.SignTransaction returned as per-input failures
    srtResult,     \* (interface{}, error) returned by signRawTransaction
    req,           \* dispatcher: the vhcjson.Request and collaborator outcomes
    forwarded,     \* dispatcher: RawRequest calls made to the remote node
    handlerCalls,  \* dispatcher: invocations of handlerData.fn
    dispResult,    \* dispatcher: (interface{}, *RPCError) of the closure
    rmCmd,         \* RedeemMultiSigOutsCmd and the wallet's enumeration
    rmItr,         \* redeemMultiSigOuts: itr
    rmPos,         \* redeemMultiSigOuts: range index i (1-based, next to visit)
    rmResults,     \* redeemMultiSigOuts: rmsoResults
    rmRedeemed,    \* outpoints redeemMultiSigOut was called for, in call order
    rmOut,         \* (interface{}, error) of redeemMultiSigOuts
    roCmd,         \* RedeemMultiSigOutCmd of the single redemption in flight
    roResult,      \* (interface{}, error) of redeemMultiSigOut
    newAddrs,      \* internal addresses derived by w.NewInternalAddress
    srtCalls,      \* commands redeemMultiSigOut handed to signRawTransaction
    roFetched,     \* redeemMultiSigOut: what the wallet handed back so far
    lockedOutpoints, \* the wallet's locked outpoints (kept across requests)
    luCmd,         \* the LockUnspentCmd
    luPos,         \* lockUnspent: index of the next cmd.Transactions entry
    luBefore,      \* lockedOutpoints when the lockunspent request arrived
    luResult,      \* (interface{}, error) of lockUnspent
    buyerState,    \* AutomationRunState: "Stopped" or "Running" (kept across requests)
    abOp,          \* the automation request in flight: "start", "stop" or "none"
    abCmd,         \* the StartAutoBuyerCmd
    abPrev,        \* buyerState when the request arrived
    abLastOp,      \* the automation request served before this one
    abStarts,      \* calls of StartTicketPurchase: [passphrase, config]
    abResult,      \* (interface{}, error) of startAutoBuyer / stopAutoBuyer
    ptCmd,         \* the PurchaseTicketCmd
    ptPurchases,   \* calls of w.PurchaseTickets: the arguments passed
    ptResult,      \* (interface{}, error) of purchaseTicket
    rvCalls,       \* revocation paths revokeTickets invoked: [path, err]
    rvResult,      \* (interface{}, error) of revokeTickets
    helpDescs,     \* the process-wide help-text map: "nil" or "full"
    helpDescsMu,   \* holder of the mutex guarding helpDescs, 0 when free
    helpBuilds,    \* calls of localeHelpDescs["en_US"]()
    hpc,           \* position of each concurrent help call
    hCmd,          \* cmd.Command of each help call ("" when absent)
    hClient,       \* whether each help call got a chainClient
    hSeen,         \* the helpDescs each help call looked its method up in
    hResult,       \* (interface{}, error) of each help call
    cancel,        \* the caller's cancellation of the request in flight
    impCmd,        \* the ImportPrivKeyCmd / ImportScriptCmd
    imported,      \* keys and scripts the wallet holds (kept across requests)
    impBefore,     \* imported when the import request arrived
    rescans,       \* goroutines running w.RescanFromHeight: [state]
    impSpawned,    \* index in rescans of the rescan this request started, or 0
    impResult,     \* (interface{}, error) of importPrivKey / importScript
    shutdown,      \* the process is shutting down
    acCmd,         \* the SendFromCmd / SendManyCmd / GetNewAddressCmd
    acLookups,     \* names handed to w.AccountNumber
    acSent,        \* calls of w.SendOutputs: [account, atoms, addr, minconf]
    acAddrs,       \* calls of w.NewExternalAddress
    acResult,      \* (interface{}, error) of the handler
    batCmd,        \* the SignRawTransactionsCmd: [rawTxs, send]
    batPos,        \* signRawTransactions: index of the loop in progress
    batResults,    \* signRawTransactions: results
    batOut,        \* signRawTransactions: toReturn
    batPublished,  \* calls of n.PublishTransactions: [i, tx, outs, err]
    batResult,     \* (interface{}, error) of signRawTransactions
    amCmd,         \* the AddMultisigAddressCmd
    p2shScripts,   \* redeem scripts the wallet has imported (kept across requests)
    amBefore,      \* p2shScripts when the addmultisigaddress request arrived
    amFiltered,    \* addresses handed to n.LoadTxFilter
    amResult,      \* (interface{}, error) of addMultiSigAddress
    naCmd,         \* the createnewaccount or renameaccount request
    accounts,      \* the names of the wallet's accounts, by account number + 1
    naCalls,       \* the wallet calls this request has made
    naResult       \* what the handler returned

\* state of the handlers other than signing, dispatch and redemption
lockVars == <<lockedOutpoints, luCmd, luPos, luBefore, luResult>>
buyerVars == <<buyerState, abOp, abCmd, abPrev, abLastOp, abStarts, abResult>>
ticketVars == <<ptCmd, ptPurchases, ptResult, rvCalls, rvResult>>
helpVars == <<helpDescs, helpDescsMu, helpBuilds, hpc, hCmd, hClient, hSeen,
              hResult>>
impVars == <<impCmd, imported, impBefore, rescans, impSpawned, impResult,
             shutdown>>
acctVars == <<acCmd, acLookups, acSent, acAddrs, acResult>>
batchVars == <<batCmd, batPos, batResults, batOut, batPublished, batResult>>
amVars == <<amCmd, p2shScripts, amBefore, amFiltered, amResult>>
nameVars == <<naCmd, accounts, naCalls, naResult>>
otherVars == <<lockVars, buyerVars, ticketVars, helpVars, cancel, impVars,
               acctVars, batchVars, amVars, nameVars>>
extVars == <<srtCalls, roFetched, otherVars>>

vars == <<pc, caller, walletLoaded, backend, srtCmd, tx, hashType, inputs,
          scripts, requested, futures, idx, toReceive, keys, signCalls,
          signErrs, srtResult, req, forwarded, handlerCalls, dispResult,
          rmCmd, rmItr, rmPos, rmResults, rmRedeemed, rmOut, roCmd, roResult,
          newAddrs, extVars>>

srtVars == <<srtCmd, tx, hashType, inputs, scripts, requested, futures, idx,
             toReceive, keys, signCalls, signErrs, srtResult>>
dispVars == <<req, forwarded, handlerCalls, dispResult>>
rmVars == <<rmCmd, rmItr, rmPos, rmResults, rmRedeemed, rmOut>>
roVars == <<roCmd, roResult, newAddrs>>
handlerVars == <<srtVars, dispVars, rmVars, roVars, srtCalls, roFetched>>
notLockVars == <<handlerVars, buyerVars, ticketVars, helpVars, cancel,
                 impVars, acctVars, batchVars, amVars, nameVars>>
notBuyerVars == <<handlerVars, lockVars, ticketVars, helpVars, cancel,
                  impVars, acctVars, batchVars, amVars, nameVars>>
notTicketVars == <<handlerVars, lockVars, buyerVars, helpVars, cancel,
                   impVars, acctVars, batchVars, amVars, nameVars>>
notHelpVars == <<pc, caller, walletLoaded, backend, handlerVars, lockVars,
                 buyerVars, ticketVars, cancel, impVars, acctVars, batchVars,
                 amVars, nameVars>>
notImpVars == <<handlerVars, lockVars, buyerVars, ticketVars, helpVars,
                cancel, acctVars, batchVars, amVars, nameVars>>
notAcctVars == <<handlerVars, lockVars, buyerVars, ticketVars, helpVars,
                 cancel, impVars, batchVars, amVars, nameVars>>
notBatchVars == <<handlerVars, lockVars, buyerVars, ticketVars, helpVars,
                  cancel, impVars, acctVars, amVars, nameVars>>
notAmVars == <<handlerVars, lockVars, buyerVars, ticketVars, helpVars,
               cancel, impVars, acctVars, batchVars, nameVars>>
notNameVars == <<handlerVars, lockVars, buyerVars, ticketVars, helpVars,
                 cancel, impVars, acctVars, batchVars, amVars>>

----------------------------------------------------------------------------
(* Bounds of the model *)

\* longest transaction (number of inputs) a request carries
MaxTxIn == 2

\* longest list of explicit inputs (cmd.Inputs) a request carries
MaxExplicit == 1

----------------------------------------------------------------------------
(* Errors: *vhcjson.RPCError, *errors.Error, or nil *)

NoErr == [type |-> "nil", code |-> "", msg |-> ""]
RPCErr(code, msg) == [type |-> "rpc", code |-> code, msg |-> msg]
WalletErr(kind, msg) == [type |-> "wallet", code |-> kind, msg |-> msg]

errUnloadedWallet ==
    RPCErr("ErrRPCWallet", "request requires a wallet but wallet has not loaded yet")
errRPCClientNotConnected ==
    RPCErr("ErrRPCClientNotConnected", "disconnected from consensus RPC")
errNoNetwork == RPCErr("ErrRPCClientNotConnected", "disconnected from network")

\* rpcError / rpcErrorf: an RPCError with the given code
rpcError(code, msg) == RPCErr(code, msg)

\* convertError: an *RPCError passes through; anything else becomes an
\* RPCError whose code is chosen from the errors.Error kind
convertError(err) ==
    IF err.type = "rpc" THEN err
    ELSE LET code ==
               IF err.type = "wallet"
               THEN CASE err.code = "Bug" -> "ErrRPCInternal"
                      [] err.code = "Encoding" -> "ErrRPCInvalidParameter"
                      [] err.code = "Locked" -> "ErrRPCWalletUnlockNeeded"
                      [] err.code = "Passphrase" -> "ErrRPCWalletPassphraseIncorrect"
                      [] err.code = "NoPeers" -> "ErrRPCClientNotConnected"
                      [] err.code = "InsufficientBalance" -> "ErrRPCWalletInsufficientFunds"
                      [] OTHER -> "ErrRPCWallet"
               ELSE "ErrRPCWallet"
         IN RPCErr(code, err.msg)

\* chain.RPCClientFromBackend succeeds only for the consensus-RPC backend
RPCClientFromBackend(n) == n = "rpc"

----------------------------------------------------------------------------
(* Hex strings, as sequences of one-character strings *)

HexVal(c) ==
    CASE c = "0" -> 0 [] c = "1" -> 1 [] c = "2" -> 2 [] c = "3" -> 3
      [] c = "4" -> 4 [] c = "5" -> 5 [] c = "6" -> 6 [] c = "7" -> 7
      [] c = "8" -> 8 [] c = "9" -> 9
      [] c \in {"a", "A"} -> 10 [] c \in {"b", "B"} -> 11
      [] c \in {"c", "C"} -> 12 [] c \in {"d", "D"} -> 13
      [] c \in {"e", "E"} -> 14 [] c \in {"f", "F"} -> 15
      [] OTHER -> -1

\* hex.DecodeString: odd length or a non-hex digit is an error
HexDecodeString(s) ==
    IF Len(s) % 2 # 0 \/ \E k \in 1..Len(s) : HexVal(s[k]) < 0
    THEN [err |-> TRUE, bytes |-> <<>>]
    ELSE [err |-> FALSE,
          bytes |-> [k \in 1..(Len(s) \div 2) |->
                        16 * HexVal(s[2 * k - 1]) + HexVal(s[2 * k])]]

\* decodeHexStr: an odd-length string gets a leading "0" before decoding
decodeHexStr(hexStr) ==
    LET s == IF Len(hexStr) % 2 # 0 THEN <<"0">> \o hexStr ELSE hexStr
        d == HexDecodeString(s)
    IN IF d.err
       THEN [err |-> RPCErr("ErrRPCDecodeHexString", "hex string decode failed"),
             bytes |-> <<>>]
       ELSE [err |-> NoErr, bytes |-> d.bytes]

----------------------------------------------------------------------------
(* Outpoints and transactions *)

Hashes == {"h1", "h2"}
OutPoints == [hash : Hashes, index : {0}, tree : {0}]

\* chainhash.NewHashFromStr fails on a string that is no hash
IsHashStr(s) == s \in Hashes

TxIns == UNION {[1..n -> OutPoints] : n \in 0..MaxTxIn}

\* wire.MsgTx.Serialize: the counts of inputs and outputs, then the inputs,
\* then the outputs; an output is [value, pkScript]
Serialize(t, outs) ==
    <<[n |-> Len(t), m |-> Len(outs)]>> \o t \o outs

\* wire.MsgTx.Deserialize: fails when the counts are missing or do not match
\* what follows them; tx is the inputs, outs the outputs
Deserialize(raw) ==
    IF /\ Len(raw) >= 1
       /\ DOMAIN raw[1] = {"n", "m"}
       /\ raw[1].n + raw[1].m = Len(raw) - 1
    THEN [err |-> FALSE, tx |-> SubSeq(raw, 2, raw[1].n + 1),
          outs |-> SubSeq(raw, raw[1].n + 2, Len(raw))]
    ELSE [err |-> TRUE, tx |-> <<>>, outs |-> <<>>]

Unsigned(ops) == [k \in 1..Len(ops) |-> [prev |-> ops[k], sig |-> FALSE]]

----------------------------------------------------------------------------
(* signRawTransaction: the request and what its collaborators may answer *)

ValidFlags == {"ALL", "NONE", "SINGLE", "ALL|ANYONECANPAY",
               "NONE|ANYONECANPAY", "SINGLE|ANYONECANPAY", "ssgen", "ssrtx"}
FlagChoices == ValidFlags \cup {"BOGUS", "all"}

\* the flag switch with a default arm that falls back to SigHashAll
SigHashOfLax(flag) ==
    CASE flag = "NONE" -> [base |-> "SigHashNone", anyOneCanPay |-> FALSE]
      [] flag = "SINGLE" -> [base |-> "SigHashSingle", anyOneCanPay |-> FALSE]
      [] flag = "ALL|ANYONECANPAY" -> [base |-> "SigHashAll", anyOneCanPay |-> TRUE]
      [] flag = "NONE|ANYONECANPAY" -> [base |-> "SigHashNone", anyOneCanPay |-> TRUE]
      [] flag = "SINGLE|ANYONECANPAY" -> [base |-> "SigHashSingle", anyOneCanPay |-> TRUE]
      [] OTHER -> [base |-> "SigHashAll", anyOneCanPay |-> FALSE]

\* the flag switch: the SigHashType of a flag string, "invalid" for the default arm
SigHashOf(flag) ==
    CASE flag = "ALL" -> [base |-> "SigHashAll", anyOneCanPay |-> FALSE]
      [] flag = "NONE" -> [base |-> "SigHashNone", anyOneCanPay |-> FALSE]
      [] flag = "SINGLE" -> [base |-> "SigHashSingle", anyOneCanPay |-> FALSE]
      [] flag = "ALL|ANYONECANPAY" -> [base |-> "SigHashAll", anyOneCanPay |-> TRUE]
      [] flag = "NONE|ANYONECANPAY" -> [base |-> "SigHashNone", anyOneCanPay |-> TRUE]
      [] flag = "SINGLE|ANYONECANPAY" -> [base |-> "SigHashSingle", anyOneCanPay |-> TRUE]
      [] flag = "ssgen" -> [base |-> "SigHashAll", anyOneCanPay |-> FALSE]
      [] flag = "ssrtx" -> [base |-> "SigHashAll", anyOneCanPay |-> FALSE]
      [] OTHER -> [base |-> "invalid", anyOneCanPay |-> FALSE]

NoHashType == [base |-> "unset", anyOneCanPay |-> FALSE]

\* vhcjson.RawTxInput values a caller may supply
RtiChoices ==
    [txid : Hashes, vout : {0}, tree : {0},
     scriptPubKey : {<<"a", "9">>, <<"7">>}, redeemScript : {<<>>}]
    \cup {[txid |-> "zz", vout |-> 0, tree |-> 0,
           scriptPubKey |-> <<"a", "9">>, redeemScript |-> <<>>],
          [txid |-> "h1", vout |-> 0, tree |-> 0,
           scriptPubKey |-> <<"x", "9">>, redeemScript |-> <<>>],
          [txid |-> "h1", vout |-> 0, tree |-> 0,
           scriptPubKey |-> <<"a", "9">>, redeemScript |-> <<"5", "x">>]}

ExplicitChoices == UNION {[1..n -> RtiChoices] : n \in 0..MaxExplicit}

\* cmd.PrivKeys: nil, or a list of WIF strings
PrivKeyChoices ==
    {[nil |-> TRUE, list |-> <<>>]}
    \cup {[nil |-> FALSE, list |-> l] :
            l \in {<<>>, <<"wifGood">>, <<"wifGarbled">>, <<"wifOtherNet">>}}

RawTxChoices ==
    {Serialize(Unsigned(ops), <<>>) : ops \in TxIns}
    \cup {<<>>, <<[n |-> 1, m |-> 0]>>}

SrtCmds ==
    [rawTx : RawTxChoices, flags : FlagChoices, inputs : ExplicitChoices,
     privKeys : PrivKeyChoices]

Backends == {"none", "spv", "rpc"}

\* what FutureGetTxOutResult.Receive can return: a transport error, JSON
\* null, or a result carrying the script's hex
LookupOutcomes ==
    {[kind |-> "err", hex |-> <<>>], [kind |-> "null", hex |-> <<>>],
     [kind |-> "result", hex |-> <<"7", "6">>],
     [kind |-> "result", hex |-> <<"7">>]}

RECURSIVE SetToSeq(_)
\* the elements of a set of integers in increasing order
SetToSeq(S) ==
    IF S = {} THEN <<>>
    ELSE LET m == CHOOSE x \in S : \A y \in S : x <= y
         IN <<m>> \o SetToSeq(S \ {m})

\* w.SignTransaction: a whole-call error, or the failing input positions in
\* increasing order (at most one failure per input)
SignOutcomes(t) ==
    {[err |-> WalletErr("Locked", "wallet locked"), failed |-> <<>>]}
    \cup {[err |-> NoErr, failed |-> SetToSeq(F)] : F \in SUBSET (1..Len(t))}

NilResult == [nil |-> TRUE, hex |-> <<>>, complete |-> FALSE, errors |-> <<>>]
NoReturn == [res |-> NilResult, err |-> NoErr, returned |-> FALSE]
Return(res, err) == [res |-> res, err |-> err, returned |-> TRUE]

----------------------------------------------------------------------------
(* signRawTransaction: the code *)

RECURSIVE ParseInputs(_, _, _, _)
\* the loop over cmdInputs: fills inputs and scripts, stops at the first
\* undecodable txid, script or redeem script
ParseInputs(rtis, k, hasKeys, acc) ==
    IF k > Len(rtis) THEN acc
    ELSE LET rti == rtis[k]
             script == decodeHexStr(rti.scriptPubKey)
             redeem == decodeHexStr(rti.redeemScript)
             op == [hash |-> rti.txid, index |-> rti.vout, tree |-> rti.tree]
         IN IF ~IsHashStr(rti.txid)
            THEN [acc EXCEPT !.err = rpcError("ErrRPCInvalidParameter", "bad hash")]
            ELSE IF script.err.type # "nil"
            THEN [acc EXCEPT !.err = script.err]
            ELSE IF hasKeys /\ redeem.err.type # "nil"
            THEN [acc EXCEPT !.err = redeem.err]
            ELSE ParseInputs(rtis, k + 1, hasKeys,
                    [err |-> NoErr,
                     inputs |-> (op :> script.bytes) @@ acc.inputs,
                     scripts |-> IF hasKeys THEN acc.scripts \cup {redeem.bytes}
                                 ELSE acc.scripts])

\* the arguments checked before any lookup is issued
SrtCheckArgs(cmd, loaded) ==
    LET d == Deserialize(cmd.rawTx)
        ht == SigHashOf(cmd.flags)
        hasKeys == ~cmd.privKeys.nil /\ Len(cmd.privKeys.list) # 0
        parsed == ParseInputs(cmd.inputs, 1, hasKeys,
                              [err |-> NoErr, inputs |-> <<>>, scripts |-> {}])
        fail(e) == [err |-> e, tx |-> <<>>, hashType |-> NoHashType,
                    inputs |-> <<>>, scripts |-> {}]
    IN IF ~loaded THEN fail(errUnloadedWallet)
       ELSE IF d.err THEN fail(rpcError("ErrRPCDeserialization", "bad tx"))
       ELSE IF ht.base = "invalid"
       THEN fail(rpcError("ErrRPCInvalidParameter", "invalid sighash flag"))
       ELSE IF parsed.err.type # "nil" THEN fail(parsed.err)
       ELSE [err |-> NoErr, tx |-> d.tx, hashType |-> ht,
             inputs |-> parsed.inputs, scripts |-> parsed.scripts]

\* a fan-out that forgets to consult the explicit inputs
NeedsLookupAll(i, flag, prev, ins) ==
    ~(i = 1 /\ flag = "ssgen")

\* the fan-out loop body: is a previous-output lookup issued for input i
\* (1-based; the code's i == 0 is position 1)
NeedsLookup(i, flag, prev, ins) ==
    ~(i = 1 /\ flag = "ssgen") /\ prev \notin DOMAIN ins

RECURSIVE ParseKeys(_, _)
\* the loop over *cmd.PrivKeys
ParseKeys(list, k) ==
    IF k > Len(list) THEN NoErr
    ELSE IF list[k] = "wifGarbled"
    THEN rpcError("ErrRPCDeserialization", "malformed private key")
    ELSE IF list[k] = "wifOtherNet"
    THEN rpcError("ErrRPCInvalidParameter", "key intended for different network")
    ELSE ParseKeys(list, k + 1)

\* the SignRawTransactionError list built from the primitive's failures
BuildSignErrors(t, failed) ==
    [k \in 1..Len(failed) |->
        [txid |-> t[failed[k]].prev.hash, vout |-> t[failed[k]].prev.index]]

\* a result that reports completeness whatever the failures
CompleteOptimistic(signErrors) == TRUE

\* Complete: len(signErrors) == 0
Complete(signErrors) == Len(signErrors) = 0

\* the SignRawTransactionResult; outs is the outputs of the transaction,
\* which signing leaves as they were deserialized
SrtBuildResult(t, outs, failed) ==
    LET signErrors == BuildSignErrors(t, failed)
    IN [nil |-> FALSE, hex |-> Serialize(t, outs),
        complete |-> Complete(signErrors), errors |-> signErrors]

SrtFresh ==
    /\ tx = <<>> /\ hashType = NoHashType /\ inputs = <<>> /\ scripts = {}
    /\ requested = <<>> /\ futures = <<>> /\ idx = 0 /\ toReceive = {}
    /\ keys = [nil |-> TRUE, set |-> {}] /\ signCalls = 0 /\ signErrs = <<>>
    /\ srtResult = NoReturn

\* a signrawtransaction request arrives
SrtCall ==
    /\ pc = "idle"
    /\ \E cmd \in SrtCmds, l \in BOOLEAN, b \in Backends :
          /\ srtCmd' = cmd
          /\ walletLoaded' = l
          /\ backend' = b
    /\ caller' = "rpc"
    /\ pc' = "srt_check"
    /\ UNCHANGED <<tx, hashType, inputs, scripts, requested, futures, idx,
                   toReceive, keys, signCalls, signErrs, srtResult>>
    /\ UNCHANGED <<dispVars, rmVars, roVars>>
    /\ UNCHANGED extVars

\* lines 2792-2874: wallet presence, Deserialize, the flag switch, cmdInputs
SrtCheck ==
    /\ pc = "srt_check"
    /\ LET a == SrtCheckArgs(srtCmd, walletLoaded)
       IN IF a.err.type # "nil"
          THEN /\ srtResult' = Return(NilResult, a.err)
               /\ pc' = "srt_ret"
               /\ UNCHANGED <<tx, hashType, inputs, scripts, idx>>
          ELSE /\ tx' = a.tx
               /\ hashType' = a.hashType
               /\ inputs' = a.inputs
               /\ scripts' = a.scripts
               /\ idx' = 1
               /\ pc' = IF RPCClientFromBackend(backend)
                        THEN "srt_issue" ELSE "srt_keys"
               /\ UNCHANGED srtResult
    /\ UNCHANGED <<caller, walletLoaded, backend, srtCmd, requested, futures,
                   toReceive, keys, signCalls, signErrs>>
    /\ UNCHANGED <<dispVars, rmVars, roVars>>
    /\ UNCHANGED extVars

\* lines 2885-2901: one turn of the loop over tx.TxIn
SrtIssue ==
    /\ pc = "srt_issue"
    /\ IF idx > Len(tx)
       THEN /\ pc' = "srt_keys"
            /\ UNCHANGED <<requested, futures, idx>>
       ELSE /\ IF NeedsLookup(idx, srtCmd.flags, tx[idx].prev, inputs)
               THEN /\ futures' = Append(futures,
                                     [op |-> tx[idx].prev, got |-> "pending"])
                    /\ requested' = (tx[idx].prev :> (Len(futures) + 1)) @@ requested
               ELSE UNCHANGED <<requested, futures>>
            /\ idx' = idx + 1
            /\ pc' = pc
    /\ UNCHANGED <<caller, walletLoaded, backend, srtCmd, tx, hashType, inputs,
                   scripts, toReceive, keys, signCalls, signErrs, srtResult>>
    /\ UNCHANGED <<dispVars, rmVars, roVars>>
    /\ UNCHANGED extVars

\* lines 2907-2946: the private keys
SrtParseKeys ==
    /\ pc = "srt_keys"
    /\ LET e == IF srtCmd.privKeys.nil THEN NoErr
                ELSE ParseKeys(srtCmd.privKeys.list, 1)
       IN IF e.type # "nil"
          THEN /\ srtResult' = Return(NilResult, e)
               /\ pc' = "srt_ret"
               /\ UNCHANGED <<keys, toReceive>>
          ELSE /\ keys' = [nil |-> srtCmd.privKeys.nil,
                           set |-> {srtCmd.privKeys.list[k] :
                                       k \in 1..Len(srtCmd.privKeys.list)}]
               /\ toReceive' = DOMAIN requested
               /\ pc' = "srt_recv"
               /\ UNCHANGED srtResult
    /\ UNCHANGED <<caller, walletLoaded, backend, srtCmd, tx, hashType, inputs,
                   scripts, requested, futures, idx, signCalls, signErrs>>
    /\ UNCHANGED <<dispVars, rmVars, roVars>>
    /\ UNCHANGED extVars

\* a loop body that swallows a failed Receive as if it were JSON null
ReceiveEffectSwallow(r) ==
    LET script == HexDecodeString(r.hex)
    IN IF r.kind = "err"
       THEN [got |-> "err", abort |-> FALSE, store |-> FALSE, bytes |-> <<>>,
             err |-> NoErr]
       ELSE IF r.kind = "null"
       THEN [got |-> "null", abort |-> FALSE, store |-> FALSE, bytes |-> <<>>,
             err |-> NoErr]
       ELSE IF script.err
       THEN [got |-> "badhex", abort |-> TRUE, store |-> FALSE, bytes |-> <<>>,
             err |-> rpcError("ErrRPCDecodeHexString", "bad hex")]
       ELSE [got |-> "result", abort |-> FALSE, store |-> TRUE,
             bytes |-> script.bytes, err |-> NoErr]

\* lines 2952-2965: what the loop body does with one Receive result
ReceiveEffect(r) ==
    LET script == HexDecodeString(r.hex)
    IN IF r.kind = "err"
       THEN [got |-> "err", abort |-> TRUE, store |-> FALSE, bytes |-> <<>>,
             err |-> WalletErr("Other", "vhcd.jsonrpc.gettxout")]
       ELSE IF r.kind = "null"
       THEN [got |-> "null", abort |-> FALSE, store |-> FALSE, bytes |-> <<>>,
             err |-> NoErr]
       ELSE IF script.err
       THEN [got |-> "badhex", abort |-> TRUE, store |-> FALSE, bytes |-> <<>>,
             err |-> rpcError("ErrRPCDecodeHexString", "bad hex")]
       ELSE [got |-> "result", abort |-> FALSE, store |-> TRUE,
             bytes |-> script.bytes, err |-> NoErr]

\* lines 2951-2966: one turn of the range over requested (map order)
SrtReceive ==
    /\ pc = "srt_recv"
    /\ IF toReceive = {}
       THEN /\ pc' = "srt_sign"
            /\ UNCHANGED <<futures, toReceive, inputs, srtResult>>
       ELSE \E op \in toReceive, r \in LookupOutcomes :
              LET e == ReceiveEffect(r)
              IN /\ futures' = [futures EXCEPT ![requested[op]].got = e.got]
                 /\ toReceive' = toReceive \ {op}
                 /\ IF e.abort
                    THEN /\ srtResult' = Return(NilResult, e.err)
                         /\ pc' = "srt_ret"
                         /\ UNCHANGED inputs
                    ELSE /\ inputs' = IF e.store THEN (op :> e.bytes) @@ inputs
                                      ELSE inputs
                         /\ UNCHANGED <<pc, srtResult>>
    /\ UNCHANGED <<caller, walletLoaded, backend, srtCmd, tx, hashType,
                   scripts, requested, idx, keys, signCalls, signErrs>>
    /\ UNCHANGED <<dispVars, rmVars, roVars>>
    /\ UNCHANGED extVars

\* lines 2972-3000: the signing primitive and the result
SrtSign ==
    /\ pc = "srt_sign"
    /\ signCalls' = signCalls + 1
    /\ \E o \in SignOutcomes(tx) :
          IF o.err.type # "nil"
          THEN /\ srtResult' = Return(NilResult, o.err)
               /\ UNCHANGED <<tx, signErrs>>
          ELSE /\ signErrs' = o.failed
               /\ tx' = [k \in 1..Len(tx) |->
                           [tx[k] EXCEPT !.sig = \A j \in 1..Len(o.failed) :
                                                    o.failed[j] # k]]
               /\ srtResult' = Return(SrtBuildResult(tx', Deserialize(srtCmd.rawTx).outs,
                                                     o.failed), NoErr)
    /\ pc' = "srt_ret"
    /\ UNCHANGED <<caller, walletLoaded, backend, srtCmd, hashType, inputs,
                   scripts, requested, futures, idx, toReceive, keys>>
    /\ UNCHANGED <<dispVars, rmVars, roVars>>
    /\ UNCHANGED extVars

\* signRawTransaction returns to the RPC server
SrtReturn ==
    /\ pc = "srt_ret"
    /\ caller = "rpc"
    /\ pc' = "done"
    /\ UNCHANGED <<caller, walletLoaded, backend, srtVars>>
    /\ UNCHANGED <<dispVars, rmVars, roVars>>
    /\ UNCHANGED extVars

----------------------------------------------------------------------------
(* The command dispatcher: lazyApplyHandler *)

\* var handlers: method name -> handler descriptor
handlers ==
    "accountaddressindex" :> [fn |-> "accountAddressIndex", noHelp |-> FALSE]
    @@ "accountsyncaddressindex" :> [fn |-> "accountSyncAddressIndex", noHelp |-> FALSE]
    @@ "addmultisigaddress" :> [fn |-> "addMultiSigAddress", noHelp |-> FALSE]
    @@ "addticket" :> [fn |-> "addTicket", noHelp |-> FALSE]
    @@ "consolidate" :> [fn |-> "consolidate", noHelp |-> FALSE]
    @@ "createmultisig" :> [fn |-> "createMultiSig", noHelp |-> FALSE]
    @@ "dumpprivkey" :> [fn |-> "dumpPrivKey", noHelp |-> FALSE]
    @@ "generatevote" :> [fn |-> "generateVote", noHelp |-> FALSE]
    @@ "getaccount" :> [fn |-> "getAccount", noHelp |-> FALSE]
    @@ "getaccountaddress" :> [fn |-> "getAccountAddress", noHelp |-> FALSE]
    @@ "getaddressesbyaccount" :> [fn |-> "getAddressesByAccount", noHelp |-> FALSE]
    @@ "getbalance" :> [fn |-> "getBalance", noHelp |-> FALSE]
    @@ "getbestblockhash" :> [fn |-> "getBestBlockHash", noHelp |-> FALSE]
    @@ "getblockcount" :> [fn |-> "getBlockCount", noHelp |-> FALSE]
    @@ "getinfo" :> [fn |-> "getInfo", noHelp |-> FALSE]
    @@ "getmasterpubkey" :> [fn |-> "getMasterPubkey", noHelp |-> FALSE]
    @@ "getmultisigoutinfo" :> [fn |-> "getMultisigOutInfo", noHelp |-> FALSE]
    @@ "getnewaddress" :> [fn |-> "getNewAddress", noHelp |-> FALSE]
    @@ "getrawchangeaddress" :> [fn |-> "getRawChangeAddress", noHelp |-> FALSE]
    @@ "getreceivedbyaccount" :> [fn |-> "getReceivedByAccount", noHelp |-> FALSE]
    @@ "getreceivedbyaddress" :> [fn |-> "getReceivedByAddress", noHelp |-> FALSE]
    @@ "getstakeinfo" :> [fn |-> "getStakeInfo", noHelp |-> FALSE]
    @@ "getticketfee" :> [fn |-> "getTicketFee", noHelp |-> FALSE]
    @@ "gettickets" :> [fn |-> "getTickets", noHelp |-> FALSE]
    @@ "gettransaction" :> [fn |-> "getTransaction", noHelp |-> FALSE]
    @@ "getvotechoices" :> [fn |-> "getVoteChoices", noHelp |-> FALSE]
    @@ "getwalletfee" :> [fn |-> "getWalletFee", noHelp |-> FALSE]
    @@ "help" :> [fn |-> "help", noHelp |-> FALSE]
    @@ "importprivkey" :> [fn |-> "importPrivKey", noHelp |-> FALSE]
    @@ "importscript" :> [fn |-> "importScript", noHelp |-> FALSE]
    @@ "keypoolrefill" :> [fn |-> "keypoolRefill", noHelp |-> FALSE]
    @@ "listaccounts" :> [fn |-> "listAccounts", noHelp |-> FALSE]
    @@ "listlockunspent" :> [fn |-> "listLockUnspent", noHelp |-> FALSE]
    @@ "listreceivedbyaccount" :> [fn |-> "listReceivedByAccount", noHelp |-> FALSE]
    @@ "listreceivedbyaddress" :> [fn |-> "listReceivedByAddress", noHelp |-> FALSE]
    @@ "listsinceblock" :> [fn |-> "listSinceBlock", noHelp |-> FALSE]
    @@ "listscripts" :> [fn |-> "listScripts", noHelp |-> FALSE]
    @@ "listtransactions" :> [fn |-> "listTransactions", noHelp |-> FALSE]
    @@ "listunspent" :> [fn |-> "listUnspent", noHelp |-> FALSE]
    @@ "lockunspent" :> [fn |-> "lockUnspent", noHelp |-> FALSE]
    @@ "purchaseticket" :> [fn |-> "purchaseTicket", noHelp |-> FALSE]
    @@ "rescanwallet" :> [fn |-> "rescanWallet", noHelp |-> FALSE]
    @@ "revoketickets" :> [fn |-> "revokeTickets", noHelp |-> FALSE]
    @@ "sendfrom" :> [fn |-> "sendFrom", noHelp |-> FALSE]
    @@ "sendmany" :> [fn |-> "sendMany", noHelp |-> FALSE]
    @@ "sendtoaddress" :> [fn |-> "sendToAddress", noHelp |-> FALSE]
    @@ "sendtomultisig" :> [fn |-> "sendToMultiSig", noHelp |-> FALSE]
    @@ "setticketfee" :> [fn |-> "setTicketFee", noHelp |-> FALSE]
    @@ "settxfee" :> [fn |-> "setTxFee", noHelp |-> FALSE]
    @@ "setvotechoice" :> [fn |-> "setVoteChoice", noHelp |-> FALSE]
    @@ "signmessage" :> [fn |-> "signMessage", noHelp |-> FALSE]
    @@ "signrawtransaction" :> [fn |-> "signRawTransaction", noHelp |-> FALSE]
    @@ "signrawtransactions" :> [fn |-> "signRawTransactions", noHelp |-> FALSE]
    @@ "startautobuyer" :> [fn |-> "startAutoBuyer", noHelp |-> FALSE]
    @@ "stopautobuyer" :> [fn |-> "stopAutoBuyer", noHelp |-> FALSE]
    @@ "sweepaccount" :> [fn |-> "sweepAccount", noHelp |-> FALSE]
    @@ "redeemmultisigout" :> [fn |-> "redeemMultiSigOut", noHelp |-> FALSE]
    @@ "redeemmultisigouts" :> [fn |-> "redeemMultiSigOuts", noHelp |-> FALSE]
    @@ "stakepooluserinfo" :> [fn |-> "stakePoolUserInfo", noHelp |-> FALSE]
    @@ "ticketsforaddress" :> [fn |-> "ticketsForAddress", noHelp |-> FALSE]
    @@ "validateaddress" :> [fn |-> "validateAddress", noHelp |-> FALSE]
    @@ "verifymessage" :> [fn |-> "verifyMessage", noHelp |-> FALSE]
    @@ "version" :> [fn |-> "version", noHelp |-> FALSE]
    @@ "walletinfo" :> [fn |-> "walletInfo", noHelp |-> FALSE]
    @@ "walletlock" :> [fn |-> "walletLock", noHelp |-> FALSE]
    @@ "walletpassphrase" :> [fn |-> "walletPassphrase", noHelp |-> FALSE]
    @@ "walletpassphrasechange" :> [fn |-> "walletPassphraseChange", noHelp |-> FALSE]
    @@ "getbestblock" :> [fn |-> "getBestBlock", noHelp |-> FALSE]
    @@ "createnewaccount" :> [fn |-> "createNewAccount", noHelp |-> FALSE]
    @@ "getunconfirmedbalance" :> [fn |-> "getUnconfirmedBalance", noHelp |-> FALSE]
    @@ "listaddresstransactions" :> [fn |-> "listAddressTransactions", noHelp |-> FALSE]
    @@ "listalltransactions" :> [fn |-> "listAllTransactions", noHelp |-> FALSE]
    @@ "renameaccount" :> [fn |-> "renameAccount", noHelp |-> FALSE]
    @@ "walletislocked" :> [fn |-> "walletIsLocked", noHelp |-> FALSE]
    @@ "backupwallet" :> [fn |-> "unimplemented", noHelp |-> TRUE]
    @@ "getwalletinfo" :> [fn |-> "unimplemented", noHelp |-> TRUE]
    @@ "importwallet" :> [fn |-> "unimplemented", noHelp |-> TRUE]
    @@ "listaddressgroupings" :> [fn |-> "unimplemented", noHelp |-> TRUE]
    @@ "dumpwallet" :> [fn |-> "unsupported", noHelp |-> TRUE]
    @@ "encryptwallet" :> [fn |-> "unsupported", noHelp |-> TRUE]
    @@ "move" :> [fn |-> "unsupported", noHelp |-> TRUE]
    @@ "setaccount" :> [fn |-> "unsupported", noHelp |-> TRUE]

\* method names a request may carry: every registered one and two that only
\* the consensus node knows
Methods == DOMAIN handlers \cup {"getblock", "ping"}

\* request.Params: raw JSON the caller sent
ParamChoices == {"[]", "[\"a\",1]", "[{]"}

\* vhcjson.UnmarshalCmd fails on a payload that does not fit the command
UnmarshalCmd(method, params) ==
    IF params = "[{]" THEN [err |-> TRUE, cmd |-> ""]
    ELSE [err |-> FALSE, cmd |-> params]

ErrRPCInvalidRequest == RPCErr("ErrRPCInvalidRequest", "Invalid request")

\* what chainClient.RawRequest can hand back: a raw response, the remote
\* node's RPCError, or a transport failure
RemoteOutcomes ==
    {[res |-> "{\"raw\":1}", err |-> NoErr],
     [res |-> "null", err |-> NoErr],
     [res |-> "nil", err |-> RPCErr("ErrRPCMethodNotFound", "Method not found")],
     [res |-> "nil", err |-> RPCErr("ErrRPCMisc", "remote says no")],
     [res |-> "nil", err |-> [type |-> "plain", code |-> "", msg |-> "connection reset"]]}

\* what an implemented handler can hand back
HandlerOutcomes ==
    {[res |-> "result", err |-> NoErr],
     [res |-> "nil", err |-> NoErr],
     [res |-> "nil", err |-> RPCErr("ErrRPCInvalidParameter", "bad parameter")],
     [res |-> "nil", err |-> WalletErr("Locked", "wallet locked")],
     [res |-> "nil", err |-> WalletErr("NoPeers", "no peers")]}

unimplementedErr == RPCErr("ErrRPCUnimplemented", "Method unimplemented")
unsupportedErr == RPCErr("-1", "Request unsupported by vhcwallet")

\* a handler table whose unsupported entries answer like unimplemented ones
HandlerFnConfused(fn, outcome) ==
    IF fn \in {"unimplemented", "unsupported"}
    THEN [res |-> "nil", err |-> unimplementedErr]
    ELSE outcome

\* handlerData.fn(s, cmd): unimplemented and unsupported are fixed errors
HandlerFn(fn, outcome) ==
    IF fn = "unimplemented" THEN [res |-> "nil", err |-> unimplementedErr]
    ELSE IF fn = "unsupported" THEN [res |-> "nil", err |-> unsupportedErr]
    ELSE outcome

\* a passthrough closure that relays every error through a fresh wallet error
PassthroughRewrap(method, params, n, remote) ==
    IF n = "none"
    THEN [res |-> "nil", err |-> errRPCClientNotConnected, fwd |-> <<>>]
    ELSE IF ~RPCClientFromBackend(n)
    THEN [res |-> "nil", fwd |-> <<>>,
          err |-> RPCErr("ErrRPCClientNotConnected",
                         "RPC passthrough requires vhcd RPC synchronization")]
    ELSE IF remote.err.type # "nil"
    THEN [res |-> "nil", err |-> RPCErr("ErrRPCWallet", remote.err.msg),
          fwd |-> <<[method |-> method, params |-> params]>>]
    ELSE [res |-> remote.res, err |-> NoErr,
          fwd |-> <<[method |-> method, params |-> params]>>]

\* a passthrough closure that forwards over whatever backend is attached
PassthroughAnyBackend(method, params, n, remote) ==
    IF n = "none"
    THEN [res |-> "nil", err |-> errRPCClientNotConnected, fwd |-> <<>>]
    ELSE IF remote.err.type # "nil"
    THEN [res |-> "nil", err |-> convertError(remote.err),
          fwd |-> <<[method |-> method, params |-> params]>>]
    ELSE [res |-> remote.res, err |-> NoErr,
          fwd |-> <<[method |-> method, params |-> params]>>]

\* lines 189-204: the passthrough closure
Passthrough(method, params, n, remote) ==
    IF n = "none"
    THEN [res |-> "nil", err |-> errRPCClientNotConnected, fwd |-> <<>>]
    ELSE IF ~RPCClientFromBackend(n)
    THEN [res |-> "nil", fwd |-> <<>>,
          err |-> RPCErr("ErrRPCClientNotConnected",
                         "RPC passthrough requires vhcd RPC synchronization")]
    ELSE IF remote.err.type # "nil"
    THEN [res |-> "nil", err |-> convertError(remote.err),
          fwd |-> <<[method |-> method, params |-> params]>>]
    ELSE [res |-> remote.res, err |-> NoErr,
          fwd |-> <<[method |-> method, params |-> params]>>]

\* a local closure that runs the handler whether or not the payload parsed
LocalHandlerUnparsed(method, params, outcome) ==
    LET r == HandlerFn(handlers[method].fn, outcome)
    IN IF r.err.type # "nil"
       THEN [res |-> "nil", err |-> convertError(r.err),
             calls |-> <<handlers[method].fn>>]
       ELSE [res |-> r.res, err |-> NoErr, calls |-> <<handlers[method].fn>>]

\* lines 207-218: the closure of a registered method
LocalHandler(method, params, outcome) ==
    LET u == UnmarshalCmd(method, params)
        r == HandlerFn(handlers[method].fn, outcome)
    IN IF u.err
       THEN [res |-> "nil", err |-> ErrRPCInvalidRequest, calls |-> <<>>]
       ELSE IF r.err.type # "nil"
       THEN [res |-> "nil", err |-> convertError(r.err),
             calls |-> <<handlers[method].fn>>]
       ELSE [res |-> r.res, err |-> NoErr, calls |-> <<handlers[method].fn>>]

NoOutcome == [res |-> "nil", err |-> NoErr]
NoReq == [method |-> "", params |-> "", remote |-> NoOutcome, handler |-> NoOutcome]
NoDispResult == [res |-> "nil", err |-> NoErr, returned |-> FALSE]

DispInit ==
    /\ req = NoReq
    /\ forwarded = <<>>
    /\ handlerCalls = <<>>
    /\ dispResult = NoDispResult

\* a dispatcher that hands every request to the passthrough closure
DispCallPassAll ==
    /\ pc = "idle"
    /\ \E m \in Methods, p \in ParamChoices, l \in BOOLEAN, b \in Backends :
          /\ req' = [NoReq EXCEPT !.method = m, !.params = p]
          /\ walletLoaded' = l
          /\ backend' = b
          /\ pc' = "disp_pass"
    /\ UNCHANGED <<caller, forwarded, handlerCalls, dispResult>>
    /\ UNCHANGED <<srtVars, rmVars, roVars>>
    /\ UNCHANGED extVars

\* lines 186-188: a request arrives and lazyApplyHandler picks its closure
DispCall ==
    /\ pc = "idle"
    /\ \E m \in Methods, p \in ParamChoices, l \in BOOLEAN, b \in Backends :
          /\ req' = [NoReq EXCEPT !.method = m, !.params = p]
          /\ walletLoaded' = l
          /\ backend' = b
          /\ pc' = IF m \in DOMAIN handlers THEN "disp_local" ELSE "disp_pass"
    /\ UNCHANGED <<caller, forwarded, handlerCalls, dispResult>>
    /\ UNCHANGED <<srtVars, rmVars, roVars>>
    /\ UNCHANGED extVars

\* the passthrough closure is invoked
DispPassthrough ==
    /\ pc = "disp_pass"
    /\ \E remote \in RemoteOutcomes :
          LET r == Passthrough(req.method, req.params, backend, remote)
          IN /\ req' = [req EXCEPT !.remote = IF r.fwd = <<>> THEN NoOutcome
                                               ELSE remote]
             /\ forwarded' = forwarded \o r.fwd
             /\ dispResult' = [res |-> r.res, err |-> r.err, returned |-> TRUE]
    /\ pc' = "done"
    /\ UNCHANGED <<caller, walletLoaded, backend, handlerCalls>>
    /\ UNCHANGED <<srtVars, rmVars, roVars>>
    /\ UNCHANGED extVars

\* the closure of a registered method is invoked
DispLocal ==
    /\ pc = "disp_local"
    /\ \E outcome \in HandlerOutcomes :
          LET r == LocalHandler(req.method, req.params, outcome)
          IN /\ req' = [req EXCEPT !.handler =
                           IF r.calls = <<>> THEN NoOutcome
                           ELSE HandlerFn(handlers[req.method].fn, outcome)]
             /\ handlerCalls' = handlerCalls \o r.calls
             /\ dispResult' = [res |-> r.res, err |-> r.err, returned |-> TRUE]
    /\ pc' = "done"
    /\ UNCHANGED <<caller, walletLoaded, backend, forwarded>>
    /\ UNCHANGED <<srtVars, rmVars, roVars>>
    /\ UNCHANGED extVars

----------------------------------------------------------------------------
(* Multisig redemption: redeemMultiSigOut and redeemMultiSigOuts *)

\* most unspent multisig outputs the wallet enumerates for one address
MaxMsos == 3

\* hex.EncodeToString
HexDigit(v) ==
    CASE v = 0 -> "0" [] v = 1 -> "1" [] v = 2 -> "2" [] v = 3 -> "3"
      [] v = 4 -> "4" [] v = 5 -> "5" [] v = 6 -> "6" [] v = 7 -> "7"
      [] v = 8 -> "8" [] v = 9 -> "9" [] v = 10 -> "a" [] v = 11 -> "b"
      [] v = 12 -> "c" [] v = 13 -> "d" [] v = 14 -> "e" [] v = 15 -> "f"

HexEncodeToString(bytes) ==
    [k \in 1..(2 * Len(bytes)) |->
        IF k % 2 = 1 THEN HexDigit(bytes[(k + 1) \div 2] \div 16)
        ELSE HexDigit(bytes[k \div 2] % 16)]

\* address strings a caller may pass
AddrStrings == {"DcP2SH", "DsP2PKH", "TsOtherNet", "garbage"}

\* secp256k1 public keys as a caller may pass them: a compressed key, a
\* string of the same length that is not hex, and hex of the same length
\* whose first byte is no key format
PubKeyCompressed ==
    "0279be667ef9dcbbac55a06295ce870b07029bfcdb2dce28d959f2815b16f81798"
PubKeyNotHex ==
    "zz79be667ef9dcbbac55a06295ce870b07029bfcdb2dce28d959f2815b16f81798"
PubKeyBadFormat ==
    "0579be667ef9dcbbac55a06295ce870b07029bfcdb2dce28d959f2815b16f81798"

\* the characters of a string, one by one
Chars(str) == [k \in 1..Len(str) |-> SubSeq(str, k, k)]

\* decodeAddress: the address kind, or an error. A string of 66 or 130
\* characters is read as a public key in hex (lines 838-850): the hex
\* decoder's error and the key parser's error go back as they are. The key
\* parser is judged by the length and the format byte of the serialized key.
\* Any other string is an address (lines 852-864), and its errors are
\* invalid-address RPC errors.
decodeAddress(str) ==
    IF Len(str) = 66 \/ Len(str) = 130
    THEN LET pubKeyBytes == HexDecodeString(Chars(str))
             format == pubKeyBytes.bytes[1]
         IN IF pubKeyBytes.err
            THEN [err |-> [type |-> "plain", code |-> "",
                           msg |-> "encoding/hex: invalid byte"],
                  kind |-> ""]
            ELSE IF \/ Len(pubKeyBytes.bytes) = 33 /\ format \in {2, 3}
                    \/ Len(pubKeyBytes.bytes) = 65 /\ format \in {4, 6, 7}
            THEN [err |-> NoErr, kind |-> "AddressSecpPubKey"]
            ELSE [err |-> [type |-> "plain", code |-> "",
                           msg |-> "invalid pubkey"],
                  kind |-> ""]
    ELSE IF str = "DcP2SH" THEN [err |-> NoErr, kind |-> "AddressScriptHash"]
    ELSE IF str = "DsP2PKH" THEN [err |-> NoErr, kind |-> "AddressPubKeyHash"]
    ELSE [err |-> RPCErr("ErrRPCInvalidAddressOrKey", "invalid address"),
          kind |-> ""]

\* the outpoints of the unspent multisig credits of the address
MsoOutPoints == {[hash |-> "h1", index |-> i, tree |-> 0] : i \in 0..(MaxMsos - 1)}

\* UnspentMultisigCreditsForAddress: any enumeration without repetition
MsoLists ==
    {l \in UNION {[1..n -> MsoOutPoints] : n \in 0..MaxMsos} :
        \A j, k \in DOMAIN l : j # k => l[j] # l[k]}

\* cmd.Number: nil (no cap given) or an int
NumberChoices == {[nil |-> TRUE, val |-> 0]}
                 \cup {[nil |-> FALSE, val |-> v] : v \in -1..MaxMsos}

RmCmds ==
    [from : {"DcP2SH", "DsP2PKH", "garbage"},
     to : {[nil |-> TRUE, str |-> ""], [nil |-> FALSE, str |-> "DsP2PKH"],
           [nil |-> FALSE, str |-> "garbage"]},
     number : NumberChoices,
     msos : MsoLists]

\* uint32(v), kept as two 16-bit halves (hi * 65536 + lo)
Uint32(v) == [hi |-> (v \div 65536) % 65536, lo |-> v % 65536]

\* a > b on uint32 values
Uint32Gt(a, b) == a.hi > b.hi \/ (a.hi = b.hi /\ a.lo > b.lo)

\* lines 2339-2342: max is 0xffffffff, or uint32(*cmd.Number)
RmMax(number) ==
    IF number.nil THEN [hi |-> 65535, lo |-> 65535] ELSE Uint32(number.val)

\* line 2347: the loop's break condition, itr > max
RmBreak(itr, max) == Uint32Gt(Uint32(itr), max)

\* vhcjson.RedeemMultiSigOutResult{}: the zero value make() fills the slice with
ZeroResult == [nil |-> FALSE, hex |-> <<>>, complete |-> FALSE, errors |-> <<>>]

NoRmCmd == [from |-> "", to |-> [nil |-> TRUE, str |-> ""],
            number |-> [nil |-> TRUE, val |-> 0], msos |-> <<>>]
NoRmOut == [res |-> <<>>, nilRes |-> TRUE, err |-> NoErr, returned |-> FALSE]
NoRoCmd == [hash |-> "", index |-> 0, tree |-> 0,
            address |-> [nil |-> TRUE, str |-> ""]]

\* what w.FetchP2SHMultiSigOutput can hand back
FetchOutcomes ==
    {[err |-> WalletErr("NotExist", "no such output"), class |-> "",
      hash160 |-> 0, amount |-> 0],
     [err |-> NoErr, class |-> "MultiSigTy", hash160 |-> 23, amount |-> 5],
     [err |-> NoErr, class |-> "ScriptHashTy", hash160 |-> 23, amount |-> 5]}

\* nothing fetched yet
NoFetch == [fetch |-> [err |-> NoErr, class |-> "", hash160 |-> 0,
                       amount |-> 0],
            prep |-> NoErr]

\* w.PrepareRedeemMultiSigOutTxOutput: unless it fails, the wallet adds to
\* the transaction one output that pays the value of the stored output to
\* pkScript
PrepareRedeemMultiSigOutTxOutput(outs, p2shOutput, pkScript, err) ==
    IF err.type # "nil" THEN outs
    ELSE Append(outs, [value |-> p2shOutput.amount, pkScript |-> pkScript])

\* a pay-to-pubkey-hash script in place of the pay-to-script-hash one
PayToPubKeyHashScript(hash160) == <<118, 169, 1, hash160, 136, 172>>

\* txscript.PayToScriptHashScript: OP_HASH160 <hash> OP_EQUAL
PayToScriptHashScript(hash160) == <<169, 1, hash160, 135>>

RmInit ==
    /\ rmCmd = NoRmCmd
    /\ rmItr = 0
    /\ rmPos = 0
    /\ rmResults = <<>>
    /\ rmRedeemed = <<>>
    /\ rmOut = NoRmOut

RoInit ==
    /\ roCmd = NoRoCmd
    /\ roResult = NoReturn
    /\ newAddrs = 0

\* a redeemmultisigouts request arrives
RmCall ==
    /\ pc = "idle"
    /\ \E cmd \in RmCmds, l \in BOOLEAN, b \in Backends :
          /\ rmCmd' = cmd
          /\ walletLoaded' = l
          /\ backend' = b
    /\ pc' = "rm_entry"
    /\ UNCHANGED <<caller, rmItr, rmPos, rmResults, rmRedeemed, rmOut>>
    /\ UNCHANGED <<srtVars, dispVars, roVars>>
    /\ UNCHANGED extVars

\* lines 2319-2345: wallet presence, the address, the enumeration, max
RmEntry ==
    /\ pc = "rm_entry"
    /\ \E enumErr \in {NoErr, WalletErr("IO", "db read failed")} :
          LET addr == decodeAddress(rmCmd.from)
              e == IF ~walletLoaded THEN errUnloadedWallet
                   ELSE IF addr.err.type # "nil" THEN addr.err
                   ELSE IF addr.kind # "AddressScriptHash"
                   THEN rpcError("ErrRPCInvalidParameter", "address is not P2SH")
                   ELSE enumErr
          IN IF e.type # "nil"
             THEN /\ rmOut' = [res |-> <<>>, nilRes |-> TRUE, err |-> e,
                               returned |-> TRUE]
                  /\ pc' = "done"
                  /\ UNCHANGED <<rmItr, rmPos, rmResults>>
             ELSE /\ rmItr' = 0
                  /\ rmPos' = 1
                  /\ rmResults' = [k \in 1..Len(rmCmd.msos) |-> ZeroResult]
                  /\ pc' = "rm_loop"
                  /\ UNCHANGED rmOut
    /\ UNCHANGED <<caller, walletLoaded, backend, rmCmd, rmRedeemed>>
    /\ UNCHANGED <<srtVars, dispVars, roVars>>
    /\ UNCHANGED extVars

\* lines 2346-2357 and 2367: the loop head, the call of redeemMultiSigOut,
\* and the return after the loop
RmLoop ==
    /\ pc = "rm_loop"
    /\ IF rmPos > Len(rmCmd.msos) \/ RmBreak(rmItr, RmMax(rmCmd.number))
       THEN /\ rmOut' = [res |-> rmResults, nilRes |-> FALSE, err |-> NoErr,
                         returned |-> TRUE]
            /\ pc' = "done"
            /\ UNCHANGED <<roCmd, roResult, rmRedeemed>>
       ELSE /\ roCmd' = [hash |-> rmCmd.msos[rmPos].hash,
                         index |-> rmCmd.msos[rmPos].index,
                         tree |-> rmCmd.msos[rmPos].tree,
                         address |-> rmCmd.to]
            /\ roResult' = NoReturn
            /\ rmRedeemed' = Append(rmRedeemed, rmCmd.msos[rmPos])
            /\ pc' = "ro_entry"
            /\ UNCHANGED rmOut
    /\ UNCHANGED <<caller, walletLoaded, backend, rmCmd, rmItr, rmPos,
                   rmResults, newAddrs>>
    /\ UNCHANGED <<srtVars, dispVars>>
    /\ UNCHANGED extVars

\* lines 2214-2244: wallet presence, the destination address (decoded, or a
\* new internal address), then the transaction hash
RoEntry ==
    /\ pc = "ro_entry"
    /\ \E derive \in {NoErr, WalletErr("Locked", "cannot derive")} :
          LET addr == decodeAddress(roCmd.address.str)
          IN IF ~walletLoaded
             THEN /\ roResult' = Return(NilResult, errUnloadedWallet)
                  /\ pc' = "ro_ret"
                  /\ UNCHANGED newAddrs
             ELSE IF ~roCmd.address.nil /\ addr.err.type # "nil"
             THEN /\ roResult' = Return(NilResult, addr.err)
                  /\ pc' = "ro_ret"
                  /\ UNCHANGED newAddrs
             ELSE IF roCmd.address.nil /\ derive.type # "nil"
             THEN /\ roResult' = Return(NilResult, derive)
                  /\ pc' = "ro_ret"
                  /\ UNCHANGED newAddrs
             ELSE /\ newAddrs' = IF roCmd.address.nil THEN newAddrs + 1
                                 ELSE newAddrs
                  /\ IF ~IsHashStr(roCmd.hash)
                     THEN /\ roResult' = Return(NilResult,
                                 rpcError("ErrRPCInvalidParameter", "bad hash"))
                          /\ pc' = "ro_ret"
                     ELSE /\ pc' = "ro_fetch"
                          /\ UNCHANGED roResult
    /\ UNCHANGED <<caller, walletLoaded, backend, roCmd>>
    /\ UNCHANGED <<srtVars, dispVars, rmVars>>
    /\ UNCHANGED extVars

\* lines 2245-2305: the stored output, the script class, the skeleton with
\* its one input and the output the wallet adds, and the
\* SignRawTransactionCmd handed to signRawTransaction
RoFetch ==
    /\ pc = "ro_fetch"
    /\ \E f \in FetchOutcomes,
          prep \in {NoErr, WalletErr("Other", "cannot prepare output")} :
          LET op == [hash |-> roCmd.hash, index |-> roCmd.index, tree |-> roCmd.tree]
              \* the destination: the decoded address, or the internal
              \* address RoEntry has just derived
              addr == IF roCmd.address.nil THEN <<"internal", newAddrs>>
                      ELSE <<roCmd.address.str>>
              pkScript == <<"PayToAddrScript">> \o addr
              txOut == PrepareRedeemMultiSigOutTxOutput(<<>>, f, pkScript, prep)
              e == IF f.err.type # "nil" THEN f.err
                   ELSE IF f.class # "MultiSigTy"
                   THEN WalletErr("Other", "P2SH redeem script is not multisig")
                   ELSE prep
              reached == f.err.type = "nil" /\ f.class = "MultiSigTy"
              rti == [txid |-> roCmd.hash, vout |-> roCmd.index, tree |-> roCmd.tree,
                      scriptPubKey |->
                          HexEncodeToString(PayToScriptHashScript(f.hash160)),
                      redeemScript |-> <<>>]
          IN /\ roFetched' = [fetch |-> f,
                              prep |-> IF reached THEN prep ELSE NoErr]
             /\ IF e.type # "nil"
                THEN /\ roResult' = Return(NilResult, e)
                     /\ pc' = "ro_ret"
                     /\ UNCHANGED <<caller, srtCmd, srtCalls>>
                ELSE /\ srtCmd' = [rawTx |-> Serialize(Unsigned(<<op>>), txOut),
                                   flags |-> "ALL",
                                   inputs |-> <<rti>>,
                                   privKeys |-> [nil |-> FALSE, list |-> <<>>]]
                     /\ srtCalls' = Append(srtCalls, srtCmd')
                     /\ caller' = "redeem"
                     /\ pc' = "srt_check"
                     /\ UNCHANGED roResult
    /\ tx' = <<>> /\ hashType' = NoHashType /\ inputs' = <<>> /\ scripts' = {}
    /\ requested' = <<>> /\ futures' = <<>> /\ idx' = 0 /\ toReceive' = {}
    /\ keys' = [nil |-> TRUE, set |-> {}] /\ signCalls' = 0 /\ signErrs' = <<>>
    /\ srtResult' = NoReturn
    /\ UNCHANGED <<walletLoaded, backend, roCmd, newAddrs>>
    /\ UNCHANGED <<dispVars, rmVars>>
    /\ UNCHANGED otherVars

\* lines 2305-2310: signRawTransaction returns to redeemMultiSigOut
RoSigned ==
    /\ pc = "srt_ret"
    /\ caller = "redeem"
    /\ roResult' = IF srtResult.res.nil \/ srtResult.err.type # "nil"
                   THEN Return(NilResult, srtResult.err)
                   ELSE Return(srtResult.res, NoErr)
    /\ caller' = "rpc"
    /\ pc' = "ro_ret"
    /\ UNCHANGED <<walletLoaded, backend, roCmd, newAddrs>>
    /\ UNCHANGED <<srtVars, dispVars, rmVars>>
    /\ UNCHANGED extVars

\* RmCollect that records a failed redemption and carries on with the next
\* output instead of returning
RmCollectContinue ==
    /\ pc = "ro_ret"
    /\ rmResults' = [rmResults EXCEPT ![rmPos] =
                         IF roResult.err.type # "nil" THEN ZeroResult
                         ELSE roResult.res]
    /\ rmItr' = rmItr + 1
    /\ rmPos' = rmPos + 1
    /\ pc' = "rm_loop"
    /\ UNCHANGED rmOut
    /\ UNCHANGED <<caller, walletLoaded, backend, rmCmd, rmRedeemed>>
    /\ UNCHANGED <<srtVars, dispVars, roVars>>
    /\ UNCHANGED extVars

\* lines 2357-2364: redeemMultiSigOut returns into the loop body
RmCollect ==
    /\ pc = "ro_ret"
    /\ IF roResult.err.type # "nil"
       THEN /\ rmOut' = [res |-> <<>>, nilRes |-> TRUE, err |-> roResult.err,
                         returned |-> TRUE]
            /\ pc' = "done"
            /\ UNCHANGED <<rmItr, rmPos, rmResults>>
       ELSE /\ rmResults' = [rmResults EXCEPT ![rmPos] = roResult.res]
            /\ rmItr' = rmItr + 1
            /\ rmPos' = rmPos + 1
            /\ pc' = "rm_loop"
            /\ UNCHANGED rmOut
    /\ UNCHANGED <<caller, walletLoaded, backend, rmCmd, rmRedeemed>>
    /\ UNCHANGED <<srtVars, dispVars, roVars>>
    /\ UNCHANGED extVars

----------------------------------------------------------------------------
(* A redeemmultisigout request served directly, and lockUnspent *)

RoHashChoices == Hashes \cup {"zz"}

RoCmds ==
    [hash : RoHashChoices, index : {0}, tree : {0},
     address : {[nil |-> TRUE, str |-> ""], [nil |-> FALSE, str |-> "DsP2PKH"],
                [nil |-> FALSE, str |-> "garbage"]}]

\* a redeemmultisigout request arrives
RoCall ==
    /\ pc = "idle"
    /\ \E cmd \in RoCmds, l \in BOOLEAN, b \in Backends :
          /\ roCmd' = cmd
          /\ walletLoaded' = l
          /\ backend' = b
    /\ pc' = "ro_entry"
    /\ UNCHANGED <<caller, roResult, newAddrs>>
    /\ UNCHANGED <<srtVars, dispVars, rmVars, extVars>>

\* redeemMultiSigOut hands its result to the dispatcher closure
RoReturn ==
    /\ pc = "ro_ret"
    /\ pc' = "done"
    /\ UNCHANGED <<caller, walletLoaded, backend>>
    /\ UNCHANGED <<srtVars, dispVars, rmVars, roVars, extVars>>

\* most entries of a lockunspent request
MaxLockInputs == 2

\* vhcjson.TransactionInput values a caller may pass
LockInputChoices == [txid : Hashes \cup {"zz"}, vout : {0}]

LuCmds ==
    [unlock : BOOLEAN,
     transactions : UNION {[1..n -> LockInputChoices] : n \in 0..MaxLockInputs}]

NoLuCmd == [unlock |-> FALSE, transactions |-> <<>>]

LuInit ==
    /\ lockedOutpoints = {}
    /\ luCmd = NoLuCmd
    /\ luPos = 0
    /\ luBefore = {}
    /\ luResult = NoReturn

\* the boolean true lockUnspent returns
TrueResult == [nil |-> FALSE, hex |-> <<>>, complete |-> TRUE, errors |-> <<>>]

\* a lockunspent request arrives
LuCall ==
    /\ pc = "idle"
    /\ \E cmd \in LuCmds, l \in BOOLEAN :
          /\ luCmd' = cmd
          /\ walletLoaded' = l
    /\ luBefore' = lockedOutpoints
    /\ pc' = "lu_entry"
    /\ UNCHANGED <<caller, backend, lockedOutpoints, luPos, luResult>>
    /\ UNCHANGED notLockVars

\* lines 2025-2034: wallet presence and the reset-all case
LuEntry ==
    /\ pc = "lu_entry"
    /\ IF ~walletLoaded
       THEN /\ luResult' = Return(NilResult, errUnloadedWallet)
            /\ pc' = "done"
            /\ UNCHANGED <<lockedOutpoints, luPos>>
       ELSE IF luCmd.unlock /\ Len(luCmd.transactions) = 0
       THEN /\ lockedOutpoints' = {}
            /\ luResult' = Return(TrueResult, NoErr)
            /\ pc' = "done"
            /\ UNCHANGED luPos
       ELSE /\ luPos' = 1
            /\ pc' = "lu_loop"
            /\ UNCHANGED <<lockedOutpoints, luResult>>
    /\ UNCHANGED <<caller, walletLoaded, backend, luCmd, luBefore>>
    /\ UNCHANGED notLockVars

\* lines 2035-2048: one iteration over cmd.Transactions, or the return after it
LuLoop ==
    /\ pc = "lu_loop"
    /\ IF luPos > Len(luCmd.transactions)
       THEN /\ luResult' = Return(TrueResult, NoErr)
            /\ pc' = "done"
            /\ UNCHANGED <<lockedOutpoints, luPos>>
       ELSE LET input == luCmd.transactions[luPos]
                op == [hash |-> input.txid, index |-> input.vout, tree |-> 0]
            IN IF ~IsHashStr(input.txid)
               THEN /\ luResult' = Return(NilResult,
                           rpcError("ErrRPCDecodeHexString", "bad txid"))
                    /\ pc' = "done"
                    /\ UNCHANGED <<lockedOutpoints, luPos>>
               ELSE /\ lockedOutpoints' = IF luCmd.unlock
                                          THEN lockedOutpoints \ {op}
                                          ELSE lockedOutpoints \cup {op}
                    /\ luPos' = luPos + 1
                    /\ pc' = "lu_loop"
                    /\ UNCHANGED luResult
    /\ UNCHANGED <<caller, walletLoaded, backend, luCmd, luBefore>>
    /\ UNCHANGED notLockVars

----------------------------------------------------------------------------
(* Ticket automation: startAutoBuyer and stopAutoBuyer *)

\* a *float64 / *int64 argument: absent, negative, or non-negative
NumChoices == {[nil |-> TRUE, val |-> 0], [nil |-> FALSE, val |-> -1],
               [nil |-> FALSE, val |-> 5]}

\* a *string address argument: absent, empty, decodable, undecodable
OptAddrChoices == {[nil |-> TRUE, str |-> ""], [nil |-> FALSE, str |-> ""],
                   [nil |-> FALSE, str |-> "DsP2PKH"],
                   [nil |-> FALSE, str |-> "garbage"]}

\* cmd.PoolFees in hundredths of a percent: absent, 0, 2.5%, 200%
PoolFeeChoices == {[nil |-> TRUE, val |-> 0], [nil |-> FALSE, val |-> 0],
                   [nil |-> FALSE, val |-> 250], [nil |-> FALSE, val |-> 20000]}

Passphrases == {"pw", "wrong"}

AbCmds ==
    [balanceToMaintain : NumChoices, maxFeePerKb : NumChoices,
     maxPriceAbsolute : NumChoices, maxPriceRelative : NumChoices,
     maxPerBlock : NumChoices, votingAddress : OptAddrChoices,
     poolAddress : OptAddrChoices, poolFees : PoolFeeChoices,
     passphrase : Passphrases]

NoAbCmd ==
    [balanceToMaintain |-> [nil |-> TRUE, val |-> 0],
     maxFeePerKb |-> [nil |-> TRUE, val |-> 0],
     maxPriceAbsolute |-> [nil |-> TRUE, val |-> 0],
     maxPriceRelative |-> [nil |-> TRUE, val |-> 0],
     maxPerBlock |-> [nil |-> TRUE, val |-> 0],
     votingAddress |-> [nil |-> TRUE, str |-> ""],
     poolAddress |-> [nil |-> TRUE, str |-> ""],
     poolFees |-> [nil |-> TRUE, val |-> 0],
     passphrase |-> "pw"]

\* s.ticketbuyerConfig: the configuration the server was started with
ticketbuyerConfig ==
    [balanceToMaintain |-> 0, maxFee |-> 1, maxPriceAbsolute |-> 0,
     maxPriceRelative |-> 1, maxPerBlock |-> 1, votingAddress |-> "",
     poolAddress |-> "", poolFees |-> 0]

\* txrules.ValidPoolFeeRate: between 0.01% and 100%, in hundredths of a percent
ValidPoolFeeRate(fee) == fee > 0 /\ fee <= 10000

\* rpcErrorf(vhcjson.ErrRPCInvalidParameter, ...)
InvalidParameter(msg) == rpcError("ErrRPCInvalidParameter", msg)

\* the pool switch without its "poolfees set without pooladdress" case
PoolCheckLax(poolFees, poolAddress) ==
    IF poolFees = 0 /\ poolAddress # ""
    THEN InvalidParameter("pooladdress set without poolfees")
    ELSE IF poolFees # 0 /\ poolAddress # "" /\ ~ValidPoolFeeRate(poolFees)
    THEN InvalidParameter("invalid poolfees")
    ELSE NoErr

\* lines 3167-3176: pool fee and pool address go together
PoolCheck(poolFees, poolAddress) ==
    IF poolFees = 0 /\ poolAddress # ""
    THEN InvalidParameter("pooladdress set without poolfees")
    ELSE IF poolFees # 0 /\ poolAddress = ""
    THEN InvalidParameter("poolfees set without pooladdress")
    ELSE IF poolFees # 0 /\ poolAddress # "" /\ ~ValidPoolFeeRate(poolFees)
    THEN InvalidParameter("invalid poolfees")
    ELSE NoErr

\* lines 3084-3179: the checks of startAutoBuyer and the config it builds;
\* err is the error of the first check that fails
startAutoBuyerConfig(cmd, loaded) ==
    LET Neg(f) == ~cmd[f].nil /\ cmd[f].val < 0
        Set(f, old) == IF cmd[f].nil THEN old ELSE cmd[f].val
        Given(a) == ~a.nil /\ a.str # ""
        voting == decodeAddress(cmd.votingAddress.str)
        pool == decodeAddress(cmd.poolAddress.str)
        poolFees == IF cmd.poolFees.nil THEN 0 ELSE cmd.poolFees.val
        poolAddress == IF Given(cmd.poolAddress) THEN cmd.poolAddress.str ELSE ""
        config == [balanceToMaintain |->
                       Set("balanceToMaintain", ticketbuyerConfig.balanceToMaintain),
                   maxFee |-> Set("maxFeePerKb", ticketbuyerConfig.maxFee),
                   maxPriceAbsolute |->
                       Set("maxPriceAbsolute", ticketbuyerConfig.maxPriceAbsolute),
                   maxPriceRelative |->
                       Set("maxPriceRelative", ticketbuyerConfig.maxPriceRelative),
                   maxPerBlock |-> Set("maxPerBlock", ticketbuyerConfig.maxPerBlock),
                   votingAddress |-> IF Given(cmd.votingAddress)
                                     THEN cmd.votingAddress.str
                                     ELSE ticketbuyerConfig.votingAddress,
                   poolAddress |-> poolAddress,
                   poolFees |-> poolFees]
        err == IF ~loaded THEN errUnloadedWallet
               ELSE IF Neg("balanceToMaintain")
               THEN InvalidParameter("balancetomaintain must be non-negative")
               ELSE IF Neg("maxFeePerKb")
               THEN InvalidParameter("maxfeeperkb must be non-negative")
               ELSE IF Neg("maxPriceAbsolute")
               THEN InvalidParameter("maxpriceabsolute must be non-negative")
               ELSE IF Neg("maxPriceRelative")
               THEN InvalidParameter("maxpricerelative must be non-negative")
               ELSE IF Neg("maxPerBlock")
               THEN InvalidParameter("maxperblock must be non-negative")
               ELSE IF Given(cmd.votingAddress) /\ voting.err.type # "nil"
               THEN voting.err
               ELSE IF Given(cmd.poolAddress) /\ pool.err.type # "nil"
               THEN pool.err
               ELSE PoolCheck(poolFees, poolAddress)
    IN [err |-> err, config |-> config]

\* loader.StartTicketPurchase: unlocks with the passphrase, then Running
StartTicketPurchase(state, passphrase) ==
    IF passphrase = "pw" THEN [state |-> "Running", err |-> NoErr]
    ELSE [state |-> state,
          err |-> WalletErr("Passphrase", "invalid passphrase")]

\* a loader that refuses to stop an engine that is not running
StopTicketPurchaseStrict(state) ==
    IF state = "Stopped"
    THEN [state |-> state, err |-> WalletErr("Invalid", "not running")]
    ELSE [state |-> "Stopped", err |-> NoErr]

\* loader.StopTicketPurchase: always Stopped, no error when already Stopped
StopTicketPurchase(state) == [state |-> "Stopped", err |-> NoErr]

\* lines 3186-3189: stopAutoBuyer hands back what the loader answers, with
\* no check of its own
stopAutoBuyer(state) ==
    LET r == StopTicketPurchase(state)
    IN [state |-> r.state, ret |-> Return(NilResult, r.err)]

AbInit ==
    /\ buyerState = "Stopped"
    /\ abOp = "none"
    /\ abCmd = NoAbCmd
    /\ abPrev = "Stopped"
    /\ abLastOp = "none"
    /\ abStarts = <<>>
    /\ abResult = NoReturn

\* a startautobuyer request arrives
AbStartCall ==
    /\ pc = "idle"
    /\ \E cmd \in AbCmds, l \in BOOLEAN :
          /\ abCmd' = cmd
          /\ walletLoaded' = l
    /\ abOp' = "start"
    /\ abPrev' = buyerState
    /\ pc' = "ab_start"
    /\ UNCHANGED <<caller, backend, buyerState, abLastOp, abStarts, abResult>>
    /\ UNCHANGED notBuyerVars

\* lines 3083-3183: the checks, then StartTicketPurchase with the passphrase
AbStart ==
    /\ pc = "ab_start"
    /\ LET c == startAutoBuyerConfig(abCmd, walletLoaded)
           r == StartTicketPurchase(buyerState, abCmd.passphrase)
       IN IF c.err.type # "nil"
          THEN /\ abResult' = Return(NilResult, c.err)
               /\ UNCHANGED <<buyerState, abStarts>>
          ELSE /\ abStarts' = Append(abStarts, [passphrase |-> abCmd.passphrase,
                                                config |-> c.config])
               /\ buyerState' = r.state
               /\ abResult' = Return(NilResult, r.err)
    /\ pc' = "done"
    /\ UNCHANGED <<caller, walletLoaded, backend, abOp, abCmd, abPrev, abLastOp>>
    /\ UNCHANGED notBuyerVars

\* a stopautobuyer request arrives
AbStopCall ==
    /\ pc = "idle"
    /\ \E l \in BOOLEAN : walletLoaded' = l
    /\ abOp' = "stop"
    /\ abPrev' = buyerState
    /\ pc' = "ab_stop"
    /\ UNCHANGED <<caller, backend, buyerState, abCmd, abLastOp, abStarts,
                   abResult>>
    /\ UNCHANGED notBuyerVars

\* lines 3186-3189
AbStop ==
    /\ pc = "ab_stop"
    /\ LET r == stopAutoBuyer(buyerState)
       IN /\ buyerState' = r.state
          /\ abResult' = r.ret
    /\ pc' = "done"
    /\ UNCHANGED <<caller, walletLoaded, backend, abOp, abCmd, abPrev, abLastOp,
                   abStarts>>
    /\ UNCHANGED notBuyerVars

----------------------------------------------------------------------------
(* Tickets: purchaseTicket and revokeTickets *)

\* a float64 amount in coins; nan marks the values that are no finite
\* number: NaN with coins 0, -Inf with coins -1 and +Inf with coins 1
AmountChoices == {[nan |-> FALSE, coins |-> -1], [nan |-> FALSE, coins |-> 0],
                  [nan |-> FALSE, coins |-> 2], [nan |-> TRUE, coins |-> 0],
                  [nan |-> TRUE, coins |-> -1], [nan |-> TRUE, coins |-> 1]}

\* f < 0 on a float64: true of the negative numbers and of -Inf, false of
\* NaN and of +Inf
FloatNegative(f) == f.coins < 0

AtomsPerCoin == 100000000

\* vhcutil.NewAmount: atoms from coins, an error for NaN and the infinities
NewAmount(f) ==
    IF f.nan THEN [err |-> TRUE, atoms |-> 0]
    ELSE [err |-> FALSE, atoms |-> f.coins * AtomsPerCoin]

AccountNames == {"default", "nosuch"}

\* w.AccountNumber: the number of a known account, or a NotExist error
AccountNumber(name) ==
    IF name = "default" THEN [err |-> NoErr, account |-> 0]
    ELSE [err |-> WalletErr("NotExist", "no account"), account |-> 0]

errAccountNotFound ==
    RPCErr("ErrRPCWalletInvalidAccountName", "account not found")

PtCmds ==
    [spendLimit : AmountChoices,
     fromAccount : AccountNames,
     minConf : {[nil |-> TRUE, val |-> 0], [nil |-> FALSE, val |-> -1],
                [nil |-> FALSE, val |-> 2]},
     ticketAddress : OptAddrChoices,
     numTickets : {[nil |-> TRUE, val |-> 0], [nil |-> FALSE, val |-> 0],
                   [nil |-> FALSE, val |-> 2]},
     poolAddress : OptAddrChoices,
     poolFees : PoolFeeChoices,
     ticketFee : {[nil |-> TRUE, amt |-> [nan |-> FALSE, coins |-> 0]],
                  [nil |-> FALSE, amt |-> [nan |-> FALSE, coins |-> 2]],
                  [nil |-> FALSE, amt |-> [nan |-> TRUE, coins |-> 0]]}]

NoPtCmd ==
    [spendLimit |-> [nan |-> FALSE, coins |-> 0],
     fromAccount |-> "default",
     minConf |-> [nil |-> TRUE, val |-> 0],
     ticketAddress |-> [nil |-> TRUE, str |-> ""],
     numTickets |-> [nil |-> TRUE, val |-> 0],
     poolAddress |-> [nil |-> TRUE, str |-> ""],
     poolFees |-> [nil |-> TRUE, val |-> 0],
     ticketFee |-> [nil |-> TRUE, amt |-> [nan |-> FALSE, coins |-> 0]]]

\* a handler result that is a list (of hash strings)
NoListReturn == [res |-> <<>>, nilRes |-> TRUE, err |-> NoErr, returned |-> FALSE]

\* line 2066: spendLimit < 0
SpendLimitRejected(atoms) == atoms < 0

\* lines 2057-2144: the checks of purchaseTicket and the arguments it
\* gathers; err is the error of the first check that fails
purchaseTicketArgs(cmd, loaded) ==
    LET Given(a) == ~a.nil /\ a.str # ""
        limit == NewAmount(cmd.spendLimit)
        acct == AccountNumber(cmd.fromAccount)
        minConf == IF cmd.minConf.nil THEN 1 ELSE cmd.minConf.val
        ticket == decodeAddress(cmd.ticketAddress.str)
        pool == decodeAddress(cmd.poolAddress.str)
        fee == NewAmount(cmd.ticketFee.amt)
        numTickets == IF ~cmd.numTickets.nil /\ cmd.numTickets.val > 1
                      THEN cmd.numTickets.val ELSE 1
        err == IF ~loaded THEN errUnloadedWallet
               ELSE IF limit.err THEN InvalidParameter("invalid amount")
               ELSE IF SpendLimitRejected(limit.atoms)
               THEN InvalidParameter("negative spend limit")
               ELSE IF acct.err.type # "nil" THEN errAccountNotFound
               ELSE IF minConf < 0 THEN InvalidParameter("negative minconf")
               ELSE IF Given(cmd.ticketAddress) /\ ticket.err.type # "nil"
               THEN ticket.err
               ELSE IF Given(cmd.poolAddress) /\ pool.err.type # "nil"
               THEN pool.err
               ELSE IF Given(cmd.poolAddress) /\ cmd.poolFees.nil
               THEN InvalidParameter("pool address set without pool fee")
               ELSE IF Given(cmd.poolAddress)
                       /\ ~ValidPoolFeeRate(cmd.poolFees.val)
               THEN InvalidParameter("pool fee percentage")
               ELSE IF ~cmd.ticketFee.nil /\ fee.err
               THEN InvalidParameter("invalid amount")
               ELSE NoErr
    IN [err |-> err,
        args |-> [spendLimit |-> limit.atoms, minConf |-> minConf,
                  ticketAddr |-> IF Given(cmd.ticketAddress)
                                 THEN cmd.ticketAddress.str ELSE "",
                  account |-> acct.account, numTickets |-> numTickets,
                  poolAddr |-> IF Given(cmd.poolAddress)
                               THEN cmd.poolAddress.str ELSE "",
                  poolFee |-> IF Given(cmd.poolAddress) THEN cmd.poolFees.val
                              ELSE 0]]

\* the revocation path taken whatever the backend
revokePathTrusted(n) == "RevokeTickets"

\* lines 2401-2408: the revocation path revokeTickets takes for backend n
revokePath(n) ==
    IF RPCClientFromBackend(n) THEN "RevokeTickets" ELSE "RevokeExpiredTickets"

TkInit ==
    /\ ptCmd = NoPtCmd
    /\ ptPurchases = <<>>
    /\ ptResult = NoListReturn
    /\ rvCalls = <<>>
    /\ rvResult = NoReturn

\* a purchaseticket request arrives
PtCall ==
    /\ pc = "idle"
    /\ \E cmd \in PtCmds, l \in BOOLEAN :
          /\ ptCmd' = cmd
          /\ walletLoaded' = l
    /\ pc' = "pt_handle"
    /\ UNCHANGED <<caller, backend, ptPurchases, ptResult, rvCalls, rvResult>>
    /\ UNCHANGED notTicketVars

\* lines 2054-2159: the checks, then w.PurchaseTickets and its hashes
PtHandle ==
    /\ pc = "pt_handle"
    /\ \E bought \in {NoErr, WalletErr("InsufficientBalance", "not enough funds")} :
          LET a == purchaseTicketArgs(ptCmd, walletLoaded)
          IN IF a.err.type # "nil"
             THEN /\ ptResult' = [res |-> <<>>, nilRes |-> TRUE, err |-> a.err,
                                  returned |-> TRUE]
                  /\ UNCHANGED ptPurchases
             ELSE /\ ptPurchases' = Append(ptPurchases, a.args)
                  /\ ptResult' =
                        IF bought.type # "nil"
                        THEN [res |-> <<>>, nilRes |-> TRUE, err |-> bought,
                              returned |-> TRUE]
                        ELSE [res |-> [k \in 1..a.args.numTickets |-> "h1"],
                              nilRes |-> FALSE, err |-> NoErr, returned |-> TRUE]
    /\ pc' = "done"
    /\ UNCHANGED <<caller, walletLoaded, backend, ptCmd, rvCalls, rvResult>>
    /\ UNCHANGED notTicketVars

\* a revoketickets request arrives
RvCall ==
    /\ pc = "idle"
    /\ \E l \in BOOLEAN, b \in Backends :
          /\ walletLoaded' = l
          /\ backend' = b
    /\ pc' = "rv_handle"
    /\ UNCHANGED <<caller, ptCmd, ptPurchases, ptResult, rvCalls, rvResult>>
    /\ UNCHANGED notTicketVars

\* lines 2390-2410
RvHandle ==
    /\ pc = "rv_handle"
    /\ \E out \in {NoErr, WalletErr("Other", "revocation failed")} :
          IF ~walletLoaded
          THEN /\ rvResult' = Return(NilResult, errUnloadedWallet)
               /\ UNCHANGED rvCalls
          ELSE /\ rvCalls' = Append(rvCalls, [path |-> revokePath(backend),
                                              err |-> out])
               /\ rvResult' = Return(NilResult, out)
    /\ pc' = "done"
    /\ UNCHANGED <<caller, walletLoaded, backend, ptCmd, ptPurchases, ptResult>>
    /\ UNCHANGED notTicketVars

----------------------------------------------------------------------------
(* help: concurrent calls sharing the lazily built help-text map *)

\* most help calls in flight at once
MaxHelpCallers == 2

HelpCallers == 1..MaxHelpCallers

\* cmd.Command: absent, a method with local help text, a method without
HelpCommands == {"", "getbalance", "getblock"}

\* whether helpDescs has an entry for the method
HasLocalHelp(desc, method) == desc = "full" /\ method = "getbalance"

\* a lock that is handed out whether or not it is held
MuFreeAlways(mu) == TRUE

\* line 1641: helpDescsMu.Lock() goes through only when the mutex is free
MuFree(mu) == mu = 0

NoHelpResult == [text |-> "", err |-> NoErr, returned |-> FALSE]

HelpInit ==
    /\ helpDescs = "nil"
    /\ helpDescsMu = 0
    /\ helpBuilds = 0
    /\ hpc = [p \in HelpCallers |-> "idle"]
    /\ hCmd = [p \in HelpCallers |-> ""]
    /\ hClient = [p \in HelpCallers |-> FALSE]
    /\ hSeen = [p \in HelpCallers |-> "none"]
    /\ hResult = [p \in HelpCallers |-> NoHelpResult]

\* a help request arrives on its own goroutine
HelpCall(p) ==
    /\ hpc[p] = "idle"
    /\ \E c \in HelpCommands, cl \in BOOLEAN :
          /\ hCmd' = [hCmd EXCEPT ![p] = c]
          /\ hClient' = [hClient EXCEPT ![p] = cl]
    /\ hpc' = [hpc EXCEPT ![p] = "entry"]
    /\ UNCHANGED <<helpDescs, helpDescsMu, helpBuilds, hSeen, hResult>>
    /\ UNCHANGED notHelpVars

\* lines 1613-1638: without a method the usages are returned, lock untouched
HelpEntry(p) ==
    /\ hpc[p] = "entry"
    /\ IF hCmd[p] = ""
       THEN /\ \E chainUsage \in {"", "chain usage"} :
                  hResult' = [hResult EXCEPT ![p] =
                      [text |-> IF hClient[p] /\ chainUsage # ""
                                THEN "chain and wallet usage"
                                ELSE "wallet usage",
                       err |-> NoErr, returned |-> TRUE]]
            /\ hpc' = [hpc EXCEPT ![p] = "done"]
       ELSE /\ hpc' = [hpc EXCEPT ![p] = "lock"]
            /\ UNCHANGED hResult
    /\ UNCHANGED <<helpDescs, helpDescsMu, helpBuilds, hCmd, hClient, hSeen>>
    /\ UNCHANGED notHelpVars

\* lines 1640-1641: helpDescsMu.Lock()
HelpLock(p) ==
    /\ hpc[p] = "lock"
    /\ MuFree(helpDescsMu)
    /\ helpDescsMu' = p
    /\ hpc' = [hpc EXCEPT ![p] = "check"]
    /\ UNCHANGED <<helpDescs, helpBuilds, hCmd, hClient, hSeen, hResult>>
    /\ UNCHANGED notHelpVars

\* line 1643: if helpDescs == nil
HelpCheck(p) ==
    /\ hpc[p] = "check"
    /\ hpc' = [hpc EXCEPT ![p] = IF helpDescs = "nil" THEN "build" ELSE "lookup"]
    /\ UNCHANGED <<helpDescs, helpDescsMu, helpBuilds, hCmd, hClient, hSeen,
                   hResult>>
    /\ UNCHANGED notHelpVars

\* line 1647: helpDescs = localeHelpDescs["en_US"]()
HelpBuild(p) ==
    /\ hpc[p] = "build"
    /\ helpBuilds' = helpBuilds + 1
    /\ helpDescs' = "full"
    /\ hpc' = [hpc EXCEPT ![p] = "lookup"]
    /\ UNCHANGED <<helpDescsMu, hCmd, hClient, hSeen, hResult>>
    /\ UNCHANGED notHelpVars

\* lines 1650-1656 and 1666-1669: the lookup in helpDescs
HelpLookup(p) ==
    /\ hpc[p] = "lookup"
    /\ hSeen' = [hSeen EXCEPT ![p] = helpDescs]
    /\ IF HasLocalHelp(helpDescs, hCmd[p])
       THEN /\ hResult' = [hResult EXCEPT ![p] =
                    [text |-> "wallet help", err |-> NoErr, returned |-> TRUE]]
            /\ hpc' = [hpc EXCEPT ![p] = "unlock"]
       ELSE IF hClient[p]
       THEN /\ hpc' = [hpc EXCEPT ![p] = "remote"]
            /\ UNCHANGED hResult
       ELSE /\ hResult' = [hResult EXCEPT ![p] =
                    [text |-> "", err |-> InvalidParameter("no help for method"),
                     returned |-> TRUE]]
            /\ hpc' = [hpc EXCEPT ![p] = "unlock"]
    /\ UNCHANGED <<helpDescs, helpDescsMu, helpBuilds, hCmd, hClient>>
    /\ UNCHANGED notHelpVars

\* lines 1656-1669: the chain server's help for the method
HelpRemote(p) ==
    /\ hpc[p] = "remote"
    /\ \E chainHelp \in {"", "chain help"} :
          hResult' = [hResult EXCEPT ![p] =
              IF chainHelp # ""
              THEN [text |-> chainHelp, err |-> NoErr, returned |-> TRUE]
              ELSE [text |-> "", err |-> InvalidParameter("no help for method"),
                    returned |-> TRUE]]
    /\ hpc' = [hpc EXCEPT ![p] = "unlock"]
    /\ UNCHANGED <<helpDescs, helpDescsMu, helpBuilds, hCmd, hClient, hSeen>>
    /\ UNCHANGED notHelpVars

\* line 1640: the deferred helpDescsMu.Unlock() runs as help returns
HelpUnlock(p) ==
    /\ hpc[p] = "unlock"
    /\ helpDescsMu' = 0
    /\ hpc' = [hpc EXCEPT ![p] = "done"]
    /\ UNCHANGED <<helpDescs, helpBuilds, hCmd, hClient, hSeen, hResult>>
    /\ UNCHANGED notHelpVars

\* the response has been written; the caller may ask again
HelpDone(p) ==
    /\ hpc[p] = "done"
    /\ hpc' = [hpc EXCEPT ![p] = "idle"]
    /\ hCmd' = [hCmd EXCEPT ![p] = ""]
    /\ hClient' = [hClient EXCEPT ![p] = FALSE]
    /\ hSeen' = [hSeen EXCEPT ![p] = "none"]
    /\ hResult' = [hResult EXCEPT ![p] = NoHelpResult]
    /\ UNCHANGED <<helpDescs, helpDescsMu, helpBuilds>>
    /\ UNCHANGED notHelpVars

----------------------------------------------------------------------------
(* The caller gives up on a signrawtransaction request *)

NoCancel == [cancelled |-> FALSE, at |-> "", pending |-> 0]

\* the lookups issued and not yet received
PendingLookups == {k \in DOMAIN futures : futures[k].got = "pending"}

\* The caller's deadline passes, or the caller cancels, while the request is
\* inside signRawTransaction.  Handlers are func(*Server, interface{}): no
\* context reaches them, GetTxOutAsync and Receive take none, so nothing in
\* the handler's state changes.
Cancel ==
    /\ pc \in {"srt_check", "srt_issue", "srt_keys", "srt_recv", "srt_sign"}
    /\ ~cancel.cancelled
    /\ cancel' = [cancelled |-> TRUE, at |-> pc,
                  pending |-> Cardinality(PendingLookups)]
    /\ UNCHANGED <<pc, caller, walletLoaded, backend, handlerVars, lockVars,
                   buyerVars, ticketVars, helpVars, impVars, acctVars,
                   batchVars, amVars, nameVars>>

----------------------------------------------------------------------------
(* Imports: importPrivKey, importScript and the rescans they start *)

\* most rescans started in one run of the model
MaxRescans == 2

\* cmd.Rescan: absent (true by default), true or false
RescanChoices == {[nil |-> TRUE, val |-> TRUE], [nil |-> FALSE, val |-> TRUE],
                  [nil |-> FALSE, val |-> FALSE]}

ImpCmds ==
    [kind : {"privkey"}, rescan : RescanChoices,
     label : {[nil |-> TRUE, str |-> ""], [nil |-> FALSE, str |-> "imported"],
              [nil |-> FALSE, str |-> "default"]},
     key : {"wifGood", "wifGarbled", "wifOtherNet"}, hex : {<<>>}]
    \cup
    [kind : {"script"}, rescan : RescanChoices,
     label : {[nil |-> TRUE, str |-> ""]}, key : {""},
     hex : {<<>>, <<"7">>, <<"7", "6">>}]

NoImpCmd == [kind |-> "", rescan |-> [nil |-> TRUE, val |-> TRUE],
             label |-> [nil |-> TRUE, str |-> ""], key |-> "", hex |-> <<>>]

\* udb.ImportedAddrAccountName
ImportedAddrAccountName == "imported"

errNotImportedAccount ==
    RPCErr("ErrRPCWallet", "imported addresses must belong to the imported account")
errWalletUnlockNeeded ==
    RPCErr("ErrRPCWalletUnlockNeeded",
           "enter the wallet passphrase with walletpassphrase first")

\* rescan := true; if cmd.Rescan != nil { rescan = *cmd.Rescan }
RescanWanted(cmd) == IF cmd.rescan.nil THEN TRUE ELSE cmd.rescan.val

\* what is handed to the wallet: the key, or the decoded script
ImportItem(cmd) ==
    IF cmd.kind = "privkey" THEN <<"key", cmd.key>>
    ELSE <<"script", HexDecodeString(cmd.hex).bytes>>

\* checks that leave the network backend for later
importChecksNoBackend(cmd, loaded, n) ==
    IF ~loaded THEN errUnloadedWallet
    ELSE IF cmd.kind = "privkey"
    THEN IF ~cmd.label.nil /\ cmd.label.str # ImportedAddrAccountName
         THEN errNotImportedAccount
         ELSE IF cmd.key = "wifGarbled"
         THEN rpcError("ErrRPCInvalidAddressOrKey", "WIF decode failed")
         ELSE IF cmd.key = "wifOtherNet"
         THEN rpcError("ErrRPCInvalidAddressOrKey", "key is not intended for net")
         ELSE NoErr
    ELSE IF HexDecodeString(cmd.hex).err
         THEN rpcError("ErrRPCDecodeHexString", "bad hex")
         ELSE IF Len(HexDecodeString(cmd.hex).bytes) = 0
         THEN InvalidParameter("empty script")
         ELSE NoErr

\* lines 961-993 and 1020-1045: the checks before the wallet is asked to
\* import; the error of the first check that fails
importChecks(cmd, loaded, n) ==
    IF ~loaded THEN errUnloadedWallet
    ELSE IF RescanWanted(cmd) /\ n = "none" THEN errNoNetwork
    ELSE IF cmd.kind = "privkey"
    THEN IF ~cmd.label.nil /\ cmd.label.str # ImportedAddrAccountName
         THEN errNotImportedAccount
         ELSE IF cmd.key = "wifGarbled"
         THEN rpcError("ErrRPCInvalidAddressOrKey", "WIF decode failed")
         ELSE IF cmd.key = "wifOtherNet"
         THEN rpcError("ErrRPCInvalidAddressOrKey", "key is not intended for net")
         ELSE NoErr
    ELSE IF HexDecodeString(cmd.hex).err
         THEN rpcError("ErrRPCDecodeHexString", "bad hex")
         ELSE IF Len(HexDecodeString(cmd.hex).bytes) = 0
         THEN InvalidParameter("empty script")
         ELSE NoErr

\* w.ImportPrivateKey / w.ImportScript: Exist when the wallet holds the item,
\* otherwise success or a failure of the wallet's own
ImportOutcomes(item, held) ==
    IF item \in held THEN {WalletErr("Exist", "already imported")}
    ELSE {NoErr, WalletErr("Locked", "wallet is locked"),
          WalletErr("IO", "db write failed")}

\* lines 997-1007 and 1048-1058: what the handler makes of the import error
importError(err) ==
    IF err.type = "nil" THEN [ret |-> FALSE, err |-> NoErr]
    ELSE IF err.code = "Exist" THEN [ret |-> TRUE, err |-> NoErr]
    ELSE IF err.code = "Locked" THEN [ret |-> TRUE, err |-> errWalletUnlockNeeded]
    ELSE [ret |-> TRUE, err |-> err]

\* how a rescan can end: done, failed, or cut off by the closing database
RescanEnds(down) ==
    IF down THEN {"ok", "failed", "panicked"} ELSE {"ok", "failed"}

\* the rescan called in line and its error returned
rescanInline(end) ==
    [state |-> end,
     err |-> IF end = "ok" THEN NoErr ELSE WalletErr("IO", "rescan failed")]

\* lines 1009-1015 and 1060-1066: go w.RescanFromHeight(...); return nil, nil
rescanSpawn(end) == [state |-> "running", err |-> NoErr]

ImpInit ==
    /\ impCmd = NoImpCmd
    /\ imported = {}
    /\ impBefore = {}
    /\ rescans = <<>>
    /\ impSpawned = 0
    /\ impResult = NoReturn
    /\ shutdown = FALSE

\* an importprivkey or importscript request arrives
ImpCall ==
    /\ pc = "idle"
    /\ ~shutdown
    /\ Len(rescans) < MaxRescans
    /\ \E cmd \in ImpCmds, l \in BOOLEAN, b \in Backends :
          /\ impCmd' = cmd
          /\ walletLoaded' = l
          /\ backend' = b
    /\ impBefore' = imported
    /\ pc' = "imp_check"
    /\ UNCHANGED <<caller, imported, rescans, impSpawned, impResult, shutdown>>
    /\ UNCHANGED notImpVars

\* lines 961-993 (importPrivKey) and 1020-1045 (importScript)
ImpCheck ==
    /\ pc = "imp_check"
    /\ LET e == importChecks(impCmd, walletLoaded, backend)
       IN IF e.type # "nil"
          THEN /\ impResult' = Return(NilResult, e)
               /\ pc' = "done"
          ELSE /\ pc' = "imp_import"
               /\ UNCHANGED impResult
    /\ UNCHANGED <<caller, walletLoaded, backend, impCmd, impBefore, imported,
                   rescans, impSpawned, shutdown>>
    /\ UNCHANGED notImpVars

\* lines 995-1007 and 1047-1058: the wallet imports the key or script
ImpImport ==
    /\ pc = "imp_import"
    /\ \E o \in ImportOutcomes(ImportItem(impCmd), imported) :
          LET e == importError(o)
          IN /\ imported' = IF o.type = "nil"
                            THEN imported \cup {ImportItem(impCmd)}
                            ELSE imported
             /\ IF e.ret
                THEN /\ impResult' = Return(NilResult, e.err)
                     /\ pc' = "done"
                ELSE /\ pc' = "imp_rescan"
                     /\ UNCHANGED impResult
    /\ UNCHANGED <<caller, walletLoaded, backend, impCmd, impBefore, rescans, impSpawned,
                   shutdown>>
    /\ UNCHANGED notImpVars

\* lines 1009-1015 and 1060-1066: the rescan is started and the handler returns
ImpRescan ==
    /\ pc = "imp_rescan"
    /\ IF RescanWanted(impCmd)
       THEN \E end \in RescanEnds(shutdown) :
               LET r == rescanSpawn(end)
               IN /\ rescans' = Append(rescans, [state |-> r.state])
                  /\ impSpawned' = Len(rescans) + 1
                  /\ impResult' = Return(NilResult, r.err)
       ELSE /\ impResult' = Return(NilResult, NoErr)
            /\ UNCHANGED <<rescans, impSpawned>>
    /\ pc' = "done"
    /\ UNCHANGED <<caller, walletLoaded, backend, impCmd, impBefore, imported, shutdown>>
    /\ UNCHANGED notImpVars

\* a rescan goroutine comes to its end, whenever that is
RescanFinish ==
    /\ \E k \in DOMAIN rescans, end \in RescanEnds(shutdown) :
          /\ rescans[k].state = "running"
          /\ rescans' = [rescans EXCEPT ![k].state = end]
    /\ UNCHANGED <<pc, caller, walletLoaded, backend, impCmd, impBefore, imported,
                   impSpawned, impResult, shutdown>>
    /\ UNCHANGED notImpVars

\* the process shuts down; nothing waits for the rescans
Shutdown ==
    /\ ~shutdown
    /\ pc \in {"idle", "done"}
    /\ shutdown' = TRUE
    /\ UNCHANGED <<pc, caller, walletLoaded, backend, impCmd, impBefore, imported, rescans,
                   impSpawned, impResult>>
    /\ UNCHANGED notImpVars

----------------------------------------------------------------------------
(* Handlers that resolve an account by name: sendFrom, sendMany, getNewAddress *)

\* sendmany is given one address/amount pair; gapPolicy is nil when absent
AcCmds ==
    [handler : {"sendfrom", "sendmany"}, account : AccountNames,
     amount : AmountChoices, minConf : {-1, 1}, comment : {"", "memo"},
     toAddress : {"DsP2PKH", "garbage"},
     gapPolicy : {[nil |-> TRUE, str |-> ""]}]
    \cup
    [handler : {"getnewaddress"}, account : AccountNames,
     amount : {[nan |-> FALSE, coins |-> 0]}, minConf : {1}, comment : {""},
     toAddress : {""},
     gapPolicy : {[nil |-> TRUE, str |-> ""], [nil |-> FALSE, str |-> "wrap"],
                  [nil |-> FALSE, str |-> "bogus"]}]

NoAcCmd == [handler |-> "", account |-> "", amount |-> [nan |-> FALSE, coins |-> 0],
            minConf |-> 0, comment |-> "", toAddress |-> "",
            gapPolicy |-> [nil |-> TRUE, str |-> ""]]

\* a string result (a transaction hash, an address) or nil
NoStrReturn == [res |-> "nil", err |-> NoErr, returned |-> FALSE]

errNeedPositiveAmount == RPCErr("ErrRPCInvalidParameter", "amount must be positive")

\* what each handler returns when w.AccountNumber fails: getNewAddress turns
\* NotExist into errAccountNotFound, sendFrom and sendMany return err as it is
accountError(handler, err) ==
    IF handler \in {"sendfrom", "sendmany"} THEN err
    ELSE IF err.code = "NotExist" THEN errAccountNotFound
    ELSE err

\* the checks of each handler before the account is resolved
checksBeforeAccount(cmd, loaded) ==
    IF ~loaded THEN errUnloadedWallet
    ELSE IF cmd.handler \in {"sendfrom", "sendmany"}
    THEN IF cmd.comment # ""
         THEN RPCErr("ErrRPCUnimplemented", "transaction comments are unsupported")
         ELSE NoErr
    ELSE IF ~cmd.gapPolicy.nil /\ cmd.gapPolicy.str \notin {"", "error", "ignore", "wrap"}
         THEN InvalidParameter("unknown gap policy")
         ELSE NoErr

\* the checks of sendFrom and sendMany between the account and sendPairs
checksAfterAccount(cmd) ==
    IF cmd.handler = "sendfrom" /\ FloatNegative(cmd.amount)
    THEN InvalidParameter("negative amount")
    ELSE IF cmd.handler \in {"sendfrom", "sendmany"} /\ cmd.minConf < 0
    THEN InvalidParameter("negative minconf")
    ELSE IF cmd.handler \in {"sendfrom", "sendmany"} /\ NewAmount(cmd.amount).err
    THEN InvalidParameter("invalid amount")
    ELSE NoErr

\* makeOutputs for one pair
makeOutputs(addrStr, atoms) ==
    IF atoms < 0 THEN errNeedPositiveAmount
    ELSE decodeAddress(addrStr).err

\* what sendPairs makes of the error of w.SendOutputs
sendPairsError(err) ==
    IF err.type = "nil" THEN NoErr
    ELSE IF err.code = "Locked" THEN errWalletUnlockNeeded
    ELSE IF err.code = "InsufficientBalance"
    THEN rpcError("ErrRPCWalletInsufficientFunds", err.msg)
    ELSE err

AcInit ==
    /\ acCmd = NoAcCmd
    /\ acLookups = <<>>
    /\ acSent = <<>>
    /\ acAddrs = 0
    /\ acResult = NoStrReturn

\* a sendfrom, sendmany or getnewaddress request arrives
AcCall ==
    /\ pc = "idle"
    /\ \E cmd \in AcCmds, l \in BOOLEAN :
          /\ acCmd' = cmd
          /\ walletLoaded' = l
    /\ pc' = "ac_handle"
    /\ UNCHANGED <<caller, backend, acLookups, acSent, acAddrs, acResult>>
    /\ UNCHANGED notAcctVars

\* the handler, from its checks to w.SendOutputs or w.NewExternalAddress
AcHandle ==
    /\ pc = "ac_handle"
    /\ \E w \in {NoErr, WalletErr("Locked", "wallet is locked"),
                  WalletErr("InsufficientBalance", "not enough funds"),
                  WalletErr("IO", "db failure")} :
          LET before == checksBeforeAccount(acCmd, walletLoaded)
              acct == AccountNumber(acCmd.account)
              after == checksAfterAccount(acCmd)
              atoms == NewAmount(acCmd.amount).atoms
              outs == makeOutputs(acCmd.toAddress, atoms)
              Fail(e) == acResult' = Return("nil", e)
          IN IF before.type # "nil"
             THEN Fail(before) /\ UNCHANGED <<acLookups, acSent, acAddrs>>
             ELSE /\ acLookups' = Append(acLookups, acCmd.account)
                  /\ IF acct.err.type # "nil"
                     THEN /\ Fail(accountError(acCmd.handler, acct.err))
                          /\ UNCHANGED <<acSent, acAddrs>>
                     ELSE IF acCmd.handler = "getnewaddress"
                     THEN /\ acAddrs' = acAddrs + 1
                          /\ acResult' = IF w.type # "nil" THEN Return("nil", w)
                                         ELSE Return("DsP2PKH", NoErr)
                          /\ UNCHANGED acSent
                     ELSE IF after.type # "nil"
                     THEN Fail(after) /\ UNCHANGED <<acSent, acAddrs>>
                     ELSE IF outs.type # "nil"
                     THEN Fail(outs) /\ UNCHANGED <<acSent, acAddrs>>
                     ELSE /\ acSent' = Append(acSent,
                                 [account |-> acct.account, atoms |-> atoms,
                                  addr |-> acCmd.toAddress,
                                  minconf |-> acCmd.minConf])
                          /\ acResult' = IF w.type # "nil"
                                         THEN Return("nil", sendPairsError(w))
                                         ELSE Return("txsha", NoErr)
                          /\ UNCHANGED acAddrs
    /\ pc' = "done"
    /\ UNCHANGED <<caller, walletLoaded, backend, acCmd>>
    /\ UNCHANGED notAcctVars

----------------------------------------------------------------------------
(* signRawTransactions: sign each transaction, then publish the complete ones *)

\* most raw transactions in one signrawtransactions request
MaxBatch == 2

BatRawTxChoices ==
    {Serialize(Unsigned(<<[hash |-> "h1", index |-> 0, tree |-> 0]>>), <<>>),
     Serialize(Unsigned(<<[hash |-> "h2", index |-> 0, tree |-> 0]>>), <<>>),
     <<>>}

BatCmds ==
    [rawTxs : UNION {[1..n -> BatRawTxChoices] : n \in 0..MaxBatch},
     send : BOOLEAN]

NoBatCmd == [rawTxs |-> <<>>, send |-> FALSE]

\* publishes whatever was signed, complete or not
ShouldPublishAny(result) == TRUE

\* line 3039: if result.Complete
ShouldPublish(result) == result.complete

\* lines 3046-3060 and 3062-3067: the SignedTransaction of one result
SignedTransaction(result, published, err) ==
    [signingResult |-> result,
     sent |-> published /\ err.type = "nil",
     txHashNil |-> ~published]

BatInit ==
    /\ batCmd = NoBatCmd
    /\ batPos = 0
    /\ batResults = <<>>
    /\ batOut = <<>>
    /\ batPublished = <<>>
    /\ batResult = NoListReturn

\* a signrawtransactions request arrives
SrtsCall ==
    /\ pc = "idle"
    /\ \E cmd \in BatCmds, l \in BOOLEAN, b \in Backends :
          /\ batCmd' = cmd
          /\ walletLoaded' = l
          /\ backend' = b
    /\ batPos' = 1
    /\ pc' = "srts_loop"
    /\ UNCHANGED <<caller, batResults, batOut, batPublished, batResult>>
    /\ UNCHANGED notBatchVars

\* lines 3010-3016 and 3026-3034, 3069-3080: the next transaction is handed
\* to signRawTransaction; after the last one, the send switch
SrtsNext ==
    /\ pc = "srts_loop"
    /\ IF batPos <= Len(batCmd.rawTxs)
       THEN /\ srtCmd' = [rawTx |-> batCmd.rawTxs[batPos], flags |-> "ALL",
                          inputs |-> <<>>,
                          privKeys |-> [nil |-> TRUE, list |-> <<>>]]
            /\ caller' = "batch"
            /\ pc' = "srt_check"
            /\ UNCHANGED <<batPos, batOut, batResult>>
       ELSE /\ UNCHANGED <<srtCmd, caller>>
            /\ IF batCmd.send
               THEN IF backend = "none"
                    THEN /\ batResult' = [res |-> <<>>, nilRes |-> TRUE,
                                          err |-> errNoNetwork, returned |-> TRUE]
                         /\ pc' = "done"
                         /\ UNCHANGED <<batPos, batOut>>
                    ELSE /\ batPos' = 1
                         /\ pc' = "srts_pub"
                         /\ UNCHANGED <<batOut, batResult>>
               ELSE /\ batOut' = [i \in 1..Len(batResults) |->
                                    SignedTransaction(batResults[i], FALSE, NoErr)]
                    /\ batResult' = [res |-> batOut', nilRes |-> FALSE,
                                     err |-> NoErr, returned |-> TRUE]
                    /\ pc' = "done"
                    /\ UNCHANGED batPos
    /\ tx' = <<>> /\ hashType' = NoHashType /\ inputs' = <<>> /\ scripts' = {}
    /\ requested' = <<>> /\ futures' = <<>> /\ idx' = 0 /\ toReceive' = {}
    /\ keys' = [nil |-> TRUE, set |-> {}] /\ signCalls' = 0 /\ signErrs' = <<>>
    /\ srtResult' = NoReturn
    /\ UNCHANGED <<walletLoaded, backend, batCmd, batResults, batPublished>>
    /\ UNCHANGED <<dispVars, rmVars, roVars, srtCalls, roFetched>>
    /\ UNCHANGED <<lockVars, buyerVars, ticketVars, helpVars, cancel, impVars,
                   acctVars, amVars, nameVars>>

\* lines 3017-3023: signRawTransaction returns to signRawTransactions
SrtsSigned ==
    /\ pc = "srt_ret"
    /\ caller = "batch"
    /\ IF srtResult.err.type # "nil"
       THEN /\ batResult' = [res |-> <<>>, nilRes |-> TRUE,
                             err |-> srtResult.err, returned |-> TRUE]
            /\ pc' = "done"
            /\ UNCHANGED <<batPos, batResults>>
       ELSE /\ batResults' = Append(batResults, srtResult.res)
            /\ batPos' = batPos + 1
            /\ pc' = "srts_loop"
            /\ UNCHANGED batResult
    /\ caller' = "rpc"
    /\ UNCHANGED <<walletLoaded, backend, batCmd, batOut, batPublished>>
    /\ UNCHANGED notBatchVars

\* lines 3038-3068 and 3080: one turn of the loop over results, or the return
SrtsPublish ==
    /\ pc = "srts_pub"
    /\ IF batPos > Len(batResults)
       THEN /\ batResult' = [res |-> batOut, nilRes |-> FALSE, err |-> NoErr,
                             returned |-> TRUE]
            /\ pc' = "done"
            /\ UNCHANGED <<batPos, batOut, batPublished>>
       ELSE LET result == batResults[batPos]
                msgTx == Deserialize(result.hex)
            IN IF ~ShouldPublish(result)
               THEN /\ batOut' = Append(batOut,
                                        SignedTransaction(result, FALSE, NoErr))
                    /\ batPos' = batPos + 1
                    /\ pc' = "srts_pub"
                    /\ UNCHANGED <<batPublished, batResult>>
               ELSE IF msgTx.err
               THEN /\ batResult' = [res |-> <<>>, nilRes |-> TRUE,
                                     err |-> rpcError("ErrRPCDeserialization",
                                                      "bad transaction"),
                                     returned |-> TRUE]
                    /\ pc' = "done"
                    /\ UNCHANGED <<batPos, batOut, batPublished>>
               ELSE \E err \in {NoErr, WalletErr("Invalid", "rejected by the network")} :
                       /\ batPublished' = Append(batPublished,
                              [i |-> batPos, tx |-> msgTx.tx, outs |-> msgTx.outs,
                               err |-> err])
                       /\ batOut' = Append(batOut,
                                           SignedTransaction(result, TRUE, err))
                       /\ batPos' = batPos + 1
                       /\ pc' = "srts_pub"
                       /\ UNCHANGED batResult
    /\ UNCHANGED <<caller, walletLoaded, backend, batCmd, batResults>>
    /\ UNCHANGED notBatchVars

----------------------------------------------------------------------------
(* addMultiSigAddress *)

AmCmds ==
    [account : {[nil |-> TRUE, str |-> ""], [nil |-> FALSE, str |-> "imported"],
                [nil |-> FALSE, str |-> "default"]},
     keys : {<<"DsP2PKH">>, <<"DsP2PKH", "DcP2SH">>, <<"DsP2PKH", "garbage">>,
             <<PubKeyCompressed>>, <<"DsP2PKH", PubKeyNotHex>>,
             <<PubKeyBadFormat>>},
     nRequired : {1}]

NoAmCmd == [account |-> [nil |-> TRUE, str |-> ""], keys |-> <<>>, nRequired |-> 0]

\* lines 355-384: the handler up to the import, with what its collaborators
\* answer: mk for w.MakeSecp256k1MultiSigScript, imp for
\* w.ImportP2SHRedeemScript; held is the wallet's store of imported scripts
addMultiSigAddress(cmd, loaded, held, mk, imp) ==
    LET script == <<cmd.nRequired, cmd.keys>>
        Stop(e) == [err |-> e, scripts |-> held]
    IN IF ~cmd.account.nil /\ cmd.account.str # ImportedAddrAccountName
       THEN Stop(errNotImportedAccount)
       ELSE IF ~loaded THEN Stop(errUnloadedWallet)
       ELSE IF \E k \in DOMAIN cmd.keys : decodeAddress(cmd.keys[k]).err.type # "nil"
       THEN Stop(decodeAddress(
                cmd.keys[CHOOSE k \in DOMAIN cmd.keys :
                            /\ decodeAddress(cmd.keys[k]).err.type # "nil"
                            /\ \A j \in 1..(k - 1) :
                                  decodeAddress(cmd.keys[j]).err.type = "nil"]).err)
       ELSE IF mk.type # "nil" THEN Stop(mk)
       ELSE IF imp.type # "nil" THEN Stop(imp)
       ELSE [err |-> NoErr, scripts |-> held \cup {script}]

\* lines 386-396: the rest of the handler, with the script imported: flt is
\* what n.LoadTxFilter answers
addMultiSigAddressFilter(cmd, n, flt) ==
    LET script == <<cmd.nRequired, cmd.keys>>
    IN IF n = "none"
       THEN [res |-> "nil", err |-> errNoNetwork, filtered |-> <<>>]
       ELSE IF flt.type # "nil"
       THEN [res |-> "nil", err |-> flt, filtered |-> <<script>>]
       ELSE [res |-> "DcP2SH", err |-> NoErr, filtered |-> <<script>>]

AmInit ==
    /\ amCmd = NoAmCmd
    /\ p2shScripts = {}
    /\ amBefore = {}
    /\ amFiltered = <<>>
    /\ amResult = NoStrReturn

\* an addmultisigaddress request arrives
AmCall ==
    /\ pc = "idle"
    /\ \E cmd \in AmCmds, l \in BOOLEAN, b \in Backends :
          /\ amCmd' = cmd
          /\ walletLoaded' = l
          /\ backend' = b
    /\ amBefore' = p2shScripts
    /\ pc' = "am_handle"
    /\ UNCHANGED <<caller, p2shScripts, amFiltered, amResult>>
    /\ UNCHANGED notAmVars

\* lines 355-384: the handler checks its arguments, builds the script and
\* imports it; an error ends the request
AmHandle ==
    /\ pc = "am_handle"
    /\ \E mk \in {NoErr, WalletErr("Invalid", "bad keys")},
          imp \in {NoErr, WalletErr("Locked", "wallet is locked")} :
          LET r == addMultiSigAddress(amCmd, walletLoaded, p2shScripts, mk, imp)
          IN /\ p2shScripts' = r.scripts
             /\ IF r.err.type # "nil"
                THEN /\ amResult' = Return("nil", r.err)
                     /\ pc' = "done"
                ELSE /\ pc' = "am_filter"
                     /\ UNCHANGED amResult
    /\ UNCHANGED <<caller, walletLoaded, backend, amCmd, amBefore, amFiltered>>
    /\ UNCHANGED notAmVars

\* lines 386-396: with the script in the wallet, the handler asks for the
\* network backend, waits for LoadTxFilter and returns
AmFilter ==
    /\ pc = "am_filter"
    /\ \E flt \in {NoErr, WalletErr("IO", "filter not loaded")} :
          LET r == addMultiSigAddressFilter(amCmd, backend, flt)
          IN /\ amFiltered' = r.filtered
             /\ amResult' = Return(r.res, r.err)
    /\ pc' = "done"
    /\ UNCHANGED <<caller, walletLoaded, backend, amCmd, p2shScripts, amBefore>>
    /\ UNCHANGED notAmVars

----------------------------------------------------------------------------
(* A help request on its way through the dispatcher *)

\* lines 207-213 for the method "help": the payload parsed, handlerData.fn is
\* help and runs on the request's goroutine with the command the payload names
DispHelp ==
    /\ pc = "disp_local"
    /\ req.method = "help"
    /\ ~UnmarshalCmd(req.method, req.params).err
    /\ hpc[1] = "idle"
    /\ \E c \in IF req.params = "[]" THEN {""} ELSE HelpCommands \ {""} :
          hCmd' = [hCmd EXCEPT ![1] = c]
    /\ hClient' = [hClient EXCEPT ![1] = RPCClientFromBackend(backend)]
    /\ hpc' = [hpc EXCEPT ![1] = "entry"]
    /\ handlerCalls' = Append(handlerCalls, handlers[req.method].fn)
    /\ pc' = "disp_help"
    /\ UNCHANGED <<caller, walletLoaded, backend, req, forwarded, dispResult>>
    /\ UNCHANGED <<helpDescs, helpDescsMu, helpBuilds, hSeen, hResult>>
    /\ UNCHANGED <<srtVars, rmVars, roVars, srtCalls, roFetched>>
    /\ UNCHANGED <<lockVars, buyerVars, ticketVars, cancel, impVars, acctVars,
                   batchVars, amVars, nameVars>>

\* lines 213-217: help has returned and the closure hands its answer on
DispHelpDone ==
    /\ pc = "disp_help"
    /\ hpc[1] = "done"
    /\ dispResult' = IF hResult[1].err.type # "nil"
                     THEN [res |-> "nil", err |-> convertError(hResult[1].err),
                           returned |-> TRUE]
                     ELSE [res |-> hResult[1].text, err |-> NoErr,
                           returned |-> TRUE]
    /\ req' = [req EXCEPT !.handler = [res |-> hResult[1].text,
                                       err |-> hResult[1].err]]
    /\ hpc' = [hpc EXCEPT ![1] = "idle"]
    /\ hCmd' = [hCmd EXCEPT ![1] = ""]
    /\ hClient' = [hClient EXCEPT ![1] = FALSE]
    /\ hSeen' = [hSeen EXCEPT ![1] = "none"]
    /\ hResult' = [hResult EXCEPT ![1] = NoHelpResult]
    /\ pc' = "done"
    /\ UNCHANGED <<caller, walletLoaded, backend, forwarded, handlerCalls>>
    /\ UNCHANGED <<helpDescs, helpDescsMu, helpBuilds>>
    /\ UNCHANGED <<srtVars, rmVars, roVars, srtCalls, roFetched>>
    /\ UNCHANGED <<lockVars, buyerVars, ticketVars, cancel, impVars, acctVars,
                   batchVars, amVars, nameVars>>

----------------------------------------------------------------------------
(* createNewAccount and renameAccount *)

MaxAccounts == 3

NaNames == {"default", "savings", "*"}

NaCmds ==
    [method : {"createnewaccount"}, old : {""}, new : NaNames]
    \cup [method : {"renameaccount"}, old : NaNames, new : NaNames]

NoNaCmd == [method |-> "", old |-> "", new |-> ""]

errReservedAccountName ==
    RPCErr("ErrRPCInvalidParameter", "account name is reserved by RPC server")

\* the names held by the wallet's accounts
NamesOf(held) == {held[i] : i \in DOMAIN held}

\* createNewAccount that hands every name to the wallet
createNewAccountAnyName(cmd, loaded, held, next) ==
    IF ~loaded
    THEN [err |-> errUnloadedWallet, accounts |-> held, calls |-> <<>>]
    ELSE IF next.type # "nil"
    THEN [err |-> IF next.type = "wallet" /\ next.code = "Locked"
                  THEN rpcError("ErrRPCWalletUnlockNeeded",
                           "creating new accounts requires an unlocked wallet")
                  ELSE next,
          accounts |-> held, calls |-> <<<<"NextAccount", cmd.new>>>>]
    ELSE [err |-> NoErr, accounts |-> Append(held, cmd.new),
          calls |-> <<<<"NextAccount", cmd.new>>>>]

\* lines 1079-1100: the handler with next, what w.NextAccount answers; held
\* is the wallet's list of account names
createNewAccount(cmd, loaded, held, next) ==
    IF ~loaded
    THEN [err |-> errUnloadedWallet, accounts |-> held, calls |-> <<>>]
    ELSE IF cmd.new = "*"
    THEN [err |-> errReservedAccountName, accounts |-> held, calls |-> <<>>]
    ELSE IF next.type # "nil"
    THEN [err |-> IF next.type = "wallet" /\ next.code = "Locked"
                  THEN rpcError("ErrRPCWalletUnlockNeeded",
                           "creating new accounts requires an unlocked wallet")
                  ELSE next,
          accounts |-> held, calls |-> <<<<"NextAccount", cmd.new>>>>]
    ELSE [err |-> NoErr, accounts |-> Append(held, cmd.new),
          calls |-> <<<<"NextAccount", cmd.new>>>>]

\* lines 1104-1127: the handler with ren, what w.RenameAccount answers;
\* w.AccountNumber finds the account that holds the old name
renameAccount(cmd, loaded, held, ren) ==
    LET lookup == <<"AccountNumber", cmd.old>>
    IN IF ~loaded
       THEN [err |-> errUnloadedWallet, accounts |-> held, calls |-> <<>>]
       ELSE IF cmd.new = "*"
       THEN [err |-> errReservedAccountName, accounts |-> held, calls |-> <<>>]
       ELSE IF cmd.old \notin NamesOf(held)
       THEN [err |-> errAccountNotFound, accounts |-> held,
             calls |-> <<lookup>>]
       ELSE LET account == CHOOSE i \in DOMAIN held : held[i] = cmd.old
            IN [err |-> ren,
                accounts |-> IF ren.type = "nil"
                             THEN [held EXCEPT ![account] = cmd.new]
                             ELSE held,
                calls |-> <<lookup, <<"RenameAccount", cmd.new>>>>]

NaInit ==
    /\ naCmd = NoNaCmd
    /\ accounts = <<"default">>
    /\ naCalls = <<>>
    /\ naResult = NoReturn

\* a createnewaccount or renameaccount request arrives
NaCall ==
    /\ pc = "idle"
    /\ \E cmd \in NaCmds, l \in BOOLEAN :
          /\ cmd.method = "createnewaccount" => Len(accounts) < MaxAccounts
          /\ naCmd' = cmd
          /\ walletLoaded' = l
    /\ pc' = "na_handle"
    /\ UNCHANGED <<caller, backend, accounts, naCalls, naResult>>
    /\ UNCHANGED notNameVars

\* lines 1079-1100 and 1104-1127: the handler runs; the wallet refuses a name
\* an account already holds
NaHandle ==
    /\ pc = "na_handle"
    /\ \E e \in {NoErr, WalletErr("Locked", "wallet is locked"),
                 WalletErr("Exist", "account name in use")} :
          /\ e = NoErr => naCmd.new \notin NamesOf(accounts)
          /\ LET r == IF naCmd.method = "createnewaccount"
                      THEN createNewAccount(naCmd, walletLoaded, accounts, e)
                      ELSE renameAccount(naCmd, walletLoaded, accounts, e)
             IN /\ accounts' = r.accounts
                /\ naCalls' = r.calls
                /\ naResult' = Return("nil", r.err)
    /\ pc' = "done"
    /\ UNCHANGED <<caller, walletLoaded, backend, naCmd>>
    /\ UNCHANGED notNameVars

----------------------------------------------------------------------------
(* Initial state and the specification of signRawTransaction *)

NoSrtCmd == [rawTx |-> <<>>, flags |-> "ALL", inputs |-> <<>>,
             privKeys |-> [nil |-> TRUE, list |-> <<>>]]

SrtInit ==
    /\ srtCmd = NoSrtCmd
    /\ SrtFresh

Init ==
    /\ pc = "idle"
    /\ caller = "rpc"
    /\ walletLoaded = TRUE
    /\ backend = "none"
    /\ SrtInit
    /\ DispInit
    /\ RmInit
    /\ RoInit
    /\ srtCalls = <<>>
    /\ roFetched = NoFetch
    /\ AbInit
    /\ TkInit
    /\ HelpInit
    /\ cancel = NoCancel
    /\ ImpInit
    /\ LuInit
    /\ AcInit
    /\ BatInit
    /\ AmInit
    /\ NaInit

\* the response has been written; the server is ready for the next request
Reset ==
    /\ pc = "done"
    /\ pc' = "idle"
    /\ caller' = "rpc"
    /\ walletLoaded' = TRUE
    /\ backend' = "none"
    /\ srtCmd' = NoSrtCmd
    /\ tx' = <<>> /\ hashType' = NoHashType /\ inputs' = <<>> /\ scripts' = {}
    /\ requested' = <<>> /\ futures' = <<>> /\ idx' = 0 /\ toReceive' = {}
    /\ keys' = [nil |-> TRUE, set |-> {}] /\ signCalls' = 0 /\ signErrs' = <<>>
    /\ srtResult' = NoReturn
    /\ req' = NoReq /\ forwarded' = <<>> /\ handlerCalls' = <<>>
    /\ dispResult' = NoDispResult
    /\ rmCmd' = NoRmCmd /\ rmItr' = 0 /\ rmPos' = 0 /\ rmResults' = <<>>
    /\ rmRedeemed' = <<>> /\ rmOut' = NoRmOut
    /\ roCmd' = NoRoCmd /\ roResult' = NoReturn /\ newAddrs' = 0
    /\ srtCalls' = <<>>
    /\ roFetched' = NoFetch
    /\ UNCHANGED lockedOutpoints
    /\ luCmd' = NoLuCmd /\ luPos' = 0 /\ luBefore' = {} /\ luResult' = NoReturn
    /\ UNCHANGED buyerState
    /\ abLastOp' = abOp
    /\ abOp' = "none" /\ abCmd' = NoAbCmd /\ abPrev' = "Stopped"
    /\ abStarts' = <<>> /\ abResult' = NoReturn
    /\ ptCmd' = NoPtCmd /\ ptPurchases' = <<>> /\ ptResult' = NoListReturn
    /\ rvCalls' = <<>> /\ rvResult' = NoReturn
    /\ UNCHANGED helpVars
    /\ cancel' = NoCancel
    /\ impCmd' = NoImpCmd /\ impSpawned' = 0 /\ impResult' = NoReturn
    /\ impBefore' = {}
    /\ UNCHANGED <<imported, rescans, shutdown>>
    /\ acCmd' = NoAcCmd /\ acLookups' = <<>> /\ acSent' = <<>>
    /\ acAddrs' = 0 /\ acResult' = NoStrReturn
    /\ batCmd' = NoBatCmd /\ batPos' = 0 /\ batResults' = <<>> /\ batOut' = <<>>
    /\ batPublished' = <<>> /\ batResult' = NoListReturn
    /\ amCmd' = NoAmCmd /\ amBefore' = {} /\ amFiltered' = <<>>
    /\ amResult' = NoStrReturn
    /\ UNCHANGED p2shScripts
    /\ naCmd' = NoNaCmd /\ naCalls' = <<>> /\ naResult' = NoReturn
    /\ UNCHANGED accounts

SignNext ==
    \/ SrtCall
    \/ SrtCheck
    \/ SrtIssue
    \/ SrtParseKeys
    \/ SrtReceive
    \/ SrtSign
    \/ SrtReturn
    \/ Reset

SpecSign == Init /\ [][SignNext]_vars

DispNext ==
    \/ DispCall
    \/ DispPassthrough
    \/ DispLocal
    \/ Reset

SpecDispatch == Init /\ [][DispNext]_vars

RedeemNext ==
    \/ RmCall
    \/ RmEntry
    \/ RmLoop
    \/ RoEntry
    \/ RoFetch
    \/ SrtCheck
    \/ SrtIssue
    \/ SrtParseKeys
    \/ SrtReceive
    \/ SrtSign
    \/ RoSigned
    \/ RmCollect
    \/ Reset

SpecRedeem == Init /\ [][RedeemNext]_vars

WalletOpsNext ==
    \/ RoCall
    \/ RoEntry
    \/ RoFetch
    \/ SrtCheck
    \/ SrtIssue
    \/ SrtParseKeys
    \/ SrtReceive
    \/ SrtSign
    \/ RoSigned
    \/ RoReturn
    \/ LuCall
    \/ LuEntry
    \/ LuLoop
    \/ Reset

SpecWalletOps == Init /\ [][WalletOpsNext]_vars

BuyerNext ==
    \/ AbStartCall
    \/ AbStart
    \/ AbStopCall
    \/ AbStop
    \/ Reset

SpecBuyer == Init /\ [][BuyerNext]_vars

TicketNext ==
    \/ PtCall
    \/ PtHandle
    \/ RvCall
    \/ RvHandle
    \/ Reset

SpecTicket == Init /\ [][TicketNext]_vars

HelpNext ==
    \E p \in HelpCallers :
        \/ HelpCall(p)
        \/ HelpEntry(p)
        \/ HelpLock(p)
        \/ HelpCheck(p)
        \/ HelpBuild(p)
        \/ HelpLookup(p)
        \/ HelpRemote(p)
        \/ HelpUnlock(p)
        \/ HelpDone(p)

SpecHelp == Init /\ [][HelpNext]_vars

CancelNext ==
    \/ SignNext
    \/ Cancel

SpecCancel == Init /\ [][CancelNext]_vars

ImportNext ==
    \/ ImpCall
    \/ ImpCheck
    \/ ImpImport
    \/ ImpRescan
    \/ RescanFinish
    \/ Shutdown
    \/ Reset

SpecImport == Init /\ [][ImportNext]_vars

\* signing and dispatch side by side: every path that talks to the remote node
TransportNext == SignNext \/ DispNext

SpecTransport == Init /\ [][TransportNext]_vars

AccountNext ==
    \/ AcCall
    \/ AcHandle
    \/ Reset

SpecAccount == Init /\ [][AccountNext]_vars

BatchNext ==
    \/ SrtsCall
    \/ SrtsNext
    \/ SrtCheck
    \/ SrtIssue
    \/ SrtParseKeys
    \/ SrtReceive
    \/ SrtSign
    \/ SrtsSigned
    \/ SrtsPublish
    \/ Reset

SpecBatch == Init /\ [][BatchNext]_vars

MultiSigNext ==
    \/ AmCall
    \/ AmHandle
    \/ AmFilter
    \/ Reset

SpecMultiSig == Init /\ [][MultiSigNext]_vars

\* the dispatcher with the help handler spelled out
RoutingNext ==
    \/ DispCall
    \/ DispPassthrough
    \/ DispLocal
    \/ DispHelp
    \/ DispHelpDone
    \/ \E p \in HelpCallers :
          \/ HelpEntry(p)
          \/ HelpLock(p)
          \/ HelpCheck(p)
          \/ HelpBuild(p)
          \/ HelpLookup(p)
          \/ HelpRemote(p)
          \/ HelpUnlock(p)
    \/ Reset

SpecRouting == Init /\ [][RoutingNext]_vars

NamingNext == NaCall \/ NaHandle \/ Reset
SpecNaming == Init /\ [][NamingNext]_vars

----------------------------------------------------------------------------
(* Properties of signRawTransaction (checked under SpecSign) *)

\* the outpoints the caller supplied in cmd.Inputs
ExplicitOps(cmd) ==
    {[hash |-> cmd.inputs[k].txid, index |-> cmd.inputs[k].vout,
      tree |-> cmd.inputs[k].tree] : k \in DOMAIN cmd.inputs}

RECURSIVE UncoveredFrom(_, _, _, _)
\* the previous outpoints of the inputs from position i on that the caller
\* did not supply, leaving out the first input of an "ssgen" signing
UncoveredFrom(t, i, flag, covered) ==
    IF i > Len(t) THEN <<>>
    ELSE (IF t[i].prev \notin covered /\ ~(i = 1 /\ flag = "ssgen")
          THEN <<t[i].prev>> ELSE <<>>)
         \o UncoveredFrom(t, i + 1, flag, covered)

IssuedOps == [k \in DOMAIN futures |-> futures[k].op]
Received(k) == futures[k].got # "pending"
SrtReturnedOk == srtResult.returned /\ srtResult.err.type = "nil"

\* C1: when signRawTransaction reaches the signing primitive and returns
\* without a whole-call error, Complete is true iff the primitive reported
\* no per-input failure; K failures give exactly K error entries, each
\* naming the failing input's previous outpoint, Complete is false when
\* K > 0, and the returned hex is non-empty.
C1_CompleteIffNoFailures ==
    (signCalls > 0 /\ SrtReturnedOk) =>
        /\ srtResult.res.complete <=> (Len(signErrs) = 0)
        /\ Len(srtResult.res.errors) = Len(signErrs)
        /\ \A k \in DOMAIN signErrs :
              /\ srtResult.res.errors[k].txid = tx[signErrs[k]].prev.hash
              /\ srtResult.res.errors[k].vout = tx[signErrs[k]].prev.index
        /\ ~srtResult.res.nil
        /\ Len(srtResult.res.hex) > 0

\* C1 witness: a two-input transaction of which exactly one input failed
C1_Witness ==
    /\ signCalls > 0 /\ SrtReturnedOk
    /\ Len(tx) = 2 /\ Len(signErrs) = 1
    /\ ~srtResult.res.complete

\* C2: no lookup result is awaited while the fan-out is still issuing
\* lookups, and w.SignTransaction is not invoked until every lookup this
\* invocation issued has been received.
C2_AllLookupsReceivedBeforeSigning ==
    /\ (\E k \in DOMAIN futures : Received(k)) => pc # "srt_issue"
    /\ signCalls > 0 => \A k \in DOMAIN futures : Received(k)

\* C3: with an RPC-capable backend exactly one lookup is issued for each
\* input whose previous outpoint the caller did not supply (the first input
\* of an "ssgen" signing excepted), in input order and none for a supplied
\* outpoint; without one no lookup is issued and the call goes on to sign.
C3_OneLookupPerUncoveredInput ==
    /\ pc # "srt_issue" =>
          IssuedOps = IF backend = "rpc"
                      THEN UncoveredFrom(tx, 1, srtCmd.flags, ExplicitOps(srtCmd))
                      ELSE <<>>
    /\ \A k \in DOMAIN futures : futures[k].op \notin ExplicitOps(srtCmd)
    /\ (backend # "rpc" /\ pc = "srt_recv") => toReceive = {}
    /\ (backend # "rpc" /\ srtResult.returned /\ signCalls = 0) =>
          \/ SrtCheckArgs(srtCmd, walletLoaded).err.type # "nil"
          \/ ParseKeys(srtCmd.privKeys.list, 1).type # "nil"

\* C3 witness: two inputs, one supplied by the caller, one looked up
C3_Witness ==
    /\ pc = "srt_keys" /\ backend = "rpc"
    /\ Len(tx) = 2 /\ Len(srtCmd.inputs) = 1
    /\ tx[1].prev \in ExplicitOps(srtCmd)
    /\ IssuedOps = <<tx[2].prev>>

\* C4: a JSON-null lookup leaves its input unresolved and does not end the
\* call (signing still happens unless another lookup aborts it); a
\* transport failure of any lookup ends the call with an error before the
\* signing primitive is invoked; the number of lookups issued never grows
\* once results are being received (no retry).
C4_NullContinuesTransportAborts ==
    /\ \A k \in DOMAIN futures :
          futures[k].got = "null" => futures[k].op \notin DOMAIN inputs
    /\ ( /\ srtResult.returned
         /\ \E k \in DOMAIN futures : futures[k].got = "null"
         /\ \A k \in DOMAIN futures : futures[k].got \notin {"err", "badhex"} )
       => signCalls = 1
    /\ \A k \in DOMAIN futures :
          futures[k].got = "err" =>
              /\ signCalls = 0
              /\ srtResult.returned
              /\ srtResult.err.type # "nil"
              /\ srtResult.res.nil
    /\ (\E k \in DOMAIN futures : Received(k)) =>
          Len(futures) = Len(UncoveredFrom(tx, 1, srtCmd.flags, ExplicitOps(srtCmd)))

\* C4 witness: signing ran after one lookup answered null and another a script
C4_Witness ==
    /\ signCalls = 1 /\ SrtReturnedOk
    /\ \E k \in DOMAIN futures : futures[k].got = "null"
    /\ \E k \in DOMAIN futures : futures[k].got = "result"

InvalidFlagErr == RPCErr("ErrRPCInvalidParameter", "invalid sighash flag")

\* C5 as stated: a flag outside the eight accepted strings always yields
\* the invalid-parameter error, and never a lookup or a signing.
C5_Original ==
    /\ (srtCmd.flags \notin ValidFlags /\ srtResult.returned) =>
          srtResult.err.code = "ErrRPCInvalidParameter"
    /\ srtCmd.flags \notin ValidFlags => (futures = <<>> /\ signCalls = 0)

\* C5 amended: the eight flag strings are the only ones not rejected for the
\* flag, ssgen and ssrtx select the same hash type as ALL, and any other
\* flag never issues a lookup nor signs and always fails; the failure is the
\* invalid-parameter error whenever a wallet is loaded and the raw
\* transaction decodes (otherwise the earlier error is returned).
C5_FlagValidation ==
    /\ srtCmd.flags \notin ValidFlags =>
          /\ futures = <<>> /\ signCalls = 0
          /\ srtResult.returned =>
                /\ srtResult.err.type # "nil"
                /\ (walletLoaded /\ ~Deserialize(srtCmd.rawTx).err)
                      => srtResult.err = InvalidFlagErr
    /\ srtCmd.flags \in ValidFlags =>
          /\ srtResult.err # InvalidFlagErr
          /\ (srtCmd.flags \in {"ALL", "ssgen", "ssrtx"} /\ hashType # NoHashType)
                => hashType = [base |-> "SigHashAll", anyOneCanPay |-> FALSE]
          /\ (pc \notin {"idle", "srt_check"} /\ walletLoaded
              /\ ~Deserialize(srtCmd.rawTx).err /\ srtCmd.inputs = <<>>)
                => hashType # NoHashType

\* C5 witness: "BOGUS" rejected with the invalid-parameter error
C5_Witness ==
    /\ srtResult.returned /\ srtCmd.flags = "BOGUS"
    /\ walletLoaded /\ backend = "rpc" /\ Len(Deserialize(srtCmd.rawTx).tx) = 2
    /\ srtResult.err = InvalidFlagErr
    /\ futures = <<>> /\ signCalls = 0

----------------------------------------------------------------------------
(* Properties of the dispatcher (checked under SpecDispatch) *)

Registered == req.method \in DOMAIN handlers
PassedThrough == dispResult.returned /\ req.method # "" /\ ~Registered
ServedLocally == dispResult.returned /\ Registered

\* C6: a request for a method absent from the handler mapping, invoked
\* while no RPC-capable backend is attached (none, or one without a
\* consensus JSON-RPC client), returns a nil result and an error with the
\* client-not-connected code, and nothing is forwarded to a remote node.
C6_PassthroughNeedsRPCBackend ==
    (PassedThrough /\ backend # "rpc") =>
        /\ dispResult.res = "nil"
        /\ dispResult.err.type = "rpc"
        /\ dispResult.err.code = "ErrRPCClientNotConnected"
        /\ forwarded = <<>>
        /\ handlerCalls = <<>>

\* C6 witness: an unknown method over a backend without a consensus client
C6_Witness ==
    /\ PassedThrough /\ backend = "spv" /\ req.method = "getblock"
    /\ dispResult.err.code = "ErrRPCClientNotConnected"

\* C7: with an RPC-capable backend, a request for an unregistered method is
\* forwarded exactly once with its method name and parameters unmodified;
\* the remote node's raw response comes back unchanged, and the remote
\* node's own error comes back with the same code and message.
C7_PassthroughVerbatim ==
    (PassedThrough /\ backend = "rpc") =>
        /\ forwarded = <<[method |-> req.method, params |-> req.params]>>
        /\ handlerCalls = <<>>
        /\ req.remote.err.type = "nil" =>
              (dispResult.res = req.remote.res /\ dispResult.err = NoErr)
        /\ req.remote.err.type = "rpc" =>
              (dispResult.res = "nil" /\ dispResult.err = req.remote.err)

\* C7 witness: the remote node's own error relayed for an unparseable payload
C7_Witness ==
    /\ PassedThrough /\ backend = "rpc" /\ req.params = "[{]"
    /\ req.remote.err = RPCErr("ErrRPCMethodNotFound", "Method not found")
    /\ dispResult.err = req.remote.err
    /\ Len(forwarded) = 1

\* C8: for a registered method, a payload that fails to parse yields the
\* "invalid request" error and the handler function is not invoked; the
\* handler is invoked at most once, and only after a successful parse.
C8_ParseBeforeHandler ==
    Registered =>
        /\ (dispResult.returned /\ UnmarshalCmd(req.method, req.params).err) =>
              /\ dispResult.err = ErrRPCInvalidRequest
              /\ dispResult.res = "nil"
              /\ handlerCalls = <<>>
        /\ Len(handlerCalls) <= 1
        /\ handlerCalls # <<>> =>
              /\ ~UnmarshalCmd(req.method, req.params).err
              /\ handlerCalls = <<handlers[req.method].fn>>
        /\ (dispResult.returned /\ ~UnmarshalCmd(req.method, req.params).err) =>
              Len(handlerCalls) = 1

\* C8 witness: signrawtransaction with an unparseable payload
C8_Witness ==
    /\ ServedLocally /\ req.method = "signrawtransaction" /\ req.params = "[{]"
    /\ dispResult.err = ErrRPCInvalidRequest
    /\ handlerCalls = <<>>

UnimplementedMethods ==
    {"backupwallet", "getwalletinfo", "importwallet", "listaddressgroupings"}
UnsupportedMethods == {"dumpwallet", "encryptwallet", "move", "setaccount"}

\* C9 as stated: the unimplemented and unsupported methods return their
\* fixed error whatever the parameters, the wallet and the backend.
C9_Original ==
    /\ (ServedLocally /\ req.method \in UnimplementedMethods) =>
          dispResult.err = unimplementedErr
    /\ (ServedLocally /\ req.method \in UnsupportedMethods) =>
          dispResult.err = unsupportedErr

\* C9 amended: the four unimplemented methods return the fixed
\* "unimplemented" error and the four unsupported ones the fixed
\* "unsupported" error whenever the payload parses into the method's
\* command, whether or not a wallet is loaded or a backend attached; a
\* payload that does not parse gets the "invalid request" error instead.
C9_FixedErrors ==
    /\ {m \in DOMAIN handlers : handlers[m].fn = "unimplemented"}
          = UnimplementedMethods
    /\ {m \in DOMAIN handlers : handlers[m].fn = "unsupported"}
          = UnsupportedMethods
    /\ (ServedLocally /\ req.method \in UnimplementedMethods) =>
          /\ dispResult.res = "nil"
          /\ dispResult.err = IF UnmarshalCmd(req.method, req.params).err
                              THEN ErrRPCInvalidRequest ELSE unimplementedErr
    /\ (ServedLocally /\ req.method \in UnsupportedMethods) =>
          /\ dispResult.res = "nil"
          /\ dispResult.err = IF UnmarshalCmd(req.method, req.params).err
                              THEN ErrRPCInvalidRequest ELSE unsupportedErr

\* C9 witness: "move" answered with the unsupported error, no wallet loaded
C9_Witness ==
    /\ ServedLocally /\ req.method = "move" /\ req.params = "[\"a\",1]"
    /\ ~walletLoaded /\ backend = "rpc"
    /\ dispResult.err = unsupportedErr

----------------------------------------------------------------------------
(* Properties of the multisig redemption (checked under SpecRedeem) *)

RmReturnedOk == rmOut.returned /\ rmOut.err.type = "nil"

\* C10: with a cap of C and more than C unspent multisig outputs,
\* redeemMultiSigOuts performs exactly C single redemptions, on the first C
\* outputs of the enumeration, and returns exactly C results; with no cap
\* every enumerated output is redeemed.
C10_CapBoundsRedemptions ==
    RmReturnedOk =>
        /\ ( /\ ~rmCmd.number.nil
             /\ rmCmd.number.val >= 0
             /\ rmCmd.number.val < Len(rmCmd.msos) ) =>
              /\ rmRedeemed = SubSeq(rmCmd.msos, 1, rmCmd.number.val)
              /\ Len(rmOut.res) = rmCmd.number.val
        /\ rmCmd.number.nil =>
              /\ rmRedeemed = rmCmd.msos
              /\ Len(rmOut.res) = Len(rmCmd.msos)

\* a single redemption has returned an error to redeemMultiSigOuts
RmRedeemFailed == roResult.returned /\ roResult.err.type # "nil"

\* C11: redeemMultiSigOuts stops at the first single redemption that fails:
\* it returns that redemption's error and a nil result, and the failing
\* output is the last one redeemMultiSigOut was called for.
C11_StopsAtFirstFailure ==
    /\ (pc \in {"ro_ret", "rm_loop", "done"} /\ RmRedeemFailed) =>
          /\ pc # "rm_loop"
          /\ rmRedeemed = SubSeq(rmCmd.msos, 1, rmPos)
          /\ \A k \in 1..(rmPos - 1) : rmResults[k] # ZeroResult
    /\ (rmOut.returned /\ RmRedeemFailed) =>
          /\ rmOut.nilRes
          /\ rmOut.res = <<>>
          /\ rmOut.err = roResult.err
          /\ Len(rmRedeemed) = rmPos

\* the second of three redemptions failed: two were attempted, the third never
C11_Witness ==
    /\ rmOut.returned
    /\ RmRedeemFailed
    /\ Len(rmCmd.msos) = 3
    /\ rmPos = 2
    /\ Len(rmRedeemed) = 2
    /\ rmOut.err = roResult.err

----------------------------------------------------------------------------
(* Properties of redeemMultiSigOut and lockUnspent (checked under          *)
(* SpecWalletOps)                                                          *)

\* redeemMultiSigOut has returned
RoReturned == pc \in {"ro_ret", "done"} /\ roResult.returned

\* the wallet handed back a stored output, and its redeem script is multisig
RoFetchedMultisig ==
    /\ roFetched.fetch.err.type = "nil"
    /\ roFetched.fetch.class = "MultiSigTy"

\* the wallet handed back a stored output whose redeem script is not multisig
RoFetchedOther ==
    /\ roFetched.fetch.err.type = "nil"
    /\ roFetched.fetch.class \notin {"", "MultiSigTy"}

\* where the redeemed value goes: the address of the request, or the
\* internal address derived for this call
RoDestination ==
    IF roCmd.address.nil THEN <<"internal", newAddrs>>
    ELSE <<roCmd.address.str>>

\* the command the signing resolver must receive for the outpoint of roCmd:
\* one input spending the outpoint, one output paying the stored value to
\* the destination; a9 01 17 87 is OP_HASH160 <hash160 = 0x17> OP_EQUAL
RoExpectedSrtCmd ==
    [rawTx |-> <<[n |-> 1, m |-> 1],
                 [prev |-> [hash |-> roCmd.hash, index |-> roCmd.index,
                            tree |-> roCmd.tree],
                  sig |-> FALSE],
                 [value |-> roFetched.fetch.amount,
                  pkScript |-> <<"PayToAddrScript">> \o RoDestination]>>,
     flags |-> "ALL",
     inputs |-> <<[txid |-> roCmd.hash, vout |-> roCmd.index,
                   tree |-> roCmd.tree,
                   scriptPubKey |-> <<"a", "9", "0", "1", "1", "7", "8", "7">>,
                   redeemScript |-> <<>>]>>,
     privKeys |-> [nil |-> FALSE, list |-> <<>>]]

\* what holds of every call whatever was fetched: a non-multisig redeem
\* script is rejected without a resolver call, the resolver is called at most
\* once, with the expected command, and its result is returned unchanged
RoResolverUse ==
    /\ RoFetchedOther =>
          /\ srtCalls = <<>>
          /\ roResult.res.nil
          /\ roResult.err.msg = "P2SH redeem script is not multisig"
    /\ Len(srtCalls) <= 1
    /\ Len(srtCalls) = 1 =>
          /\ RoFetchedMultisig
          /\ srtCalls[1] = RoExpectedSrtCmd
          /\ Len(Deserialize(srtCalls[1].rawTx).tx) = 1
          /\ Len(Deserialize(srtCalls[1].rawTx).outs) = 1
          /\ srtResult.returned
          /\ roResult.err = srtResult.err
          /\ roResult.res = srtResult.res

\* C12 as stated: a non-multisig redeem script is rejected without calling the
\* signing resolver; otherwise (the stored script is multisig) the resolver is
\* called exactly once with the one-input, one-output transaction, ALL, no
\* keys and the P2SH script as sole explicit input, and its result is
\* returned unchanged.
C12_Original ==
    RoReturned =>
        /\ RoResolverUse
        /\ RoFetchedMultisig => Len(srtCalls) = 1

\* C12 (amended): as C12_Original, but the resolver is called exactly once
\* only when the wallet also prepared the transaction output without error;
\* when it did not, that error is returned and the resolver is not called.
C12_RedeemSingle ==
    RoReturned =>
        /\ RoResolverUse
        /\ (RoFetchedMultisig /\ roFetched.prep.type = "nil") =>
              Len(srtCalls) = 1
        /\ (RoFetchedMultisig /\ roFetched.prep.type # "nil") =>
              /\ srtCalls = <<>>
              /\ roResult.res.nil
              /\ roResult.err = roFetched.prep

\* a multisig outpoint was redeemed: the resolver ran once and its signed
\* transaction, one input and one output paying the destination, came back
\* as the result
C12_Witness ==
    /\ pc = "done"
    /\ roResult.returned
    /\ RoFetchedMultisig
    /\ Len(srtCalls) = 1
    /\ roResult.err.type = "nil"
    /\ ~roResult.res.nil
    /\ roResult.res = srtResult.res
    /\ Len(Deserialize(roResult.res.hex).tx) = 1
    /\ Len(Deserialize(roResult.res.hex).outs) = 1
    /\ Deserialize(roResult.res.hex).outs[1].pkScript
          = <<"PayToAddrScript">> \o RoDestination

----------------------------------------------------------------------------
(* Properties of the ticket automation handlers (checked under SpecBuyer) *)

AbReturned(op) == pc = "done" /\ abOp = op /\ abResult.returned

\* a supplied balancetomaintain, maxfeeperkb, maxpriceabsolute,
\* maxpricerelative or maxperblock is negative
AbNegative ==
    \E f \in {"balanceToMaintain", "maxFeePerKb", "maxPriceAbsolute",
               "maxPriceRelative", "maxPerBlock"} :
        ~abCmd[f].nil /\ abCmd[f].val < 0

\* the request is invalid in the words of the claim: a negative value, pool
\* fees supplied without a pool address, a pool address supplied without pool
\* fees, or a supplied pool fee outside 0.01% .. 100%
AbInvalidAsStated ==
    \/ AbNegative
    \/ ~abCmd.poolFees.nil /\ abCmd.poolAddress.nil
    \/ ~abCmd.poolAddress.nil /\ abCmd.poolFees.nil
    \/ ~abCmd.poolFees.nil
          /\ (abCmd.poolFees.val < 1 \/ abCmd.poolFees.val > 10000)

\* the same with a zero pool fee and an empty pool address counted as absent
AbFeeGiven == ~abCmd.poolFees.nil /\ abCmd.poolFees.val # 0
AbPoolGiven == ~abCmd.poolAddress.nil /\ abCmd.poolAddress.str # ""
AbPoolMismatch ==
    \/ AbFeeGiven /\ ~AbPoolGiven
    \/ AbPoolGiven /\ ~AbFeeGiven
    \/ AbFeeGiven /\ (abCmd.poolFees.val < 1 \/ abCmd.poolFees.val > 10000)

\* a supplied, non-empty voting or pool address does not decode
AbBadAddress ==
    \E a \in {"votingAddress", "poolAddress"} :
        /\ ~abCmd[a].nil
        /\ abCmd[a].str \notin {"", "DsP2PKH", "DcP2SH"}

AbIsInvalidParameter ==
    /\ abResult.err.type = "rpc"
    /\ abResult.err.code = "ErrRPCInvalidParameter"

\* C13 as stated: an invalid request fails with invalid-parameter, the
\* engine's start is never invoked and the state stays as it was; start is
\* invoked, with the caller's passphrase, only when every check has passed.
C13_Original ==
    AbReturned("start") =>
        /\ AbInvalidAsStated =>
              /\ AbIsInvalidParameter
              /\ abStarts = <<>>
              /\ buyerState = abPrev
        /\ abStarts # <<>> =>
              /\ ~AbInvalidAsStated
              /\ abStarts[1].passphrase = abCmd.passphrase

\* C13 (amended): with a zero pool fee and an empty pool address counted as
\* not supplied, every invalid request fails without invoking the engine's
\* start and leaves the state as it was; the failure is invalid-parameter
\* when a wallet is loaded and, for the pool checks, the supplied addresses
\* decode; start is invoked exactly once, with the caller's passphrase and the
\* requested configuration, exactly when every check has passed.
C13_StartValidation ==
    AbReturned("start") =>
        LET invalid == AbNegative \/ AbPoolMismatch
            passed == walletLoaded /\ ~invalid /\ ~AbBadAddress
        IN /\ ~passed =>
                 /\ abResult.err.type # "nil"
                 /\ abStarts = <<>>
                 /\ buyerState = abPrev
           /\ (walletLoaded /\ AbNegative) => AbIsInvalidParameter
           /\ (walletLoaded /\ AbPoolMismatch /\ ~AbBadAddress) =>
                 AbIsInvalidParameter
           /\ passed =>
                 /\ Len(abStarts) = 1
                 /\ abStarts[1].passphrase = abCmd.passphrase
                 /\ abStarts[1].config.poolFees =
                        (IF AbFeeGiven THEN abCmd.poolFees.val ELSE 0)
                 /\ abStarts[1].config.poolAddress =
                        (IF AbPoolGiven THEN abCmd.poolAddress.str ELSE "")
                 /\ \A f \in {"balanceToMaintain", "maxPriceAbsolute"} :
                        ~abCmd[f].nil => abStarts[1].config[f] = abCmd[f].val

\* poolFees = 2.5% and no pool address: rejected, the engine stays Stopped
C13_Witness ==
    /\ AbReturned("start")
    /\ walletLoaded
    /\ ~abCmd.poolFees.nil /\ abCmd.poolFees.val = 250
    /\ abCmd.poolAddress.nil
    /\ ~AbNegative
    /\ AbIsInvalidParameter
    /\ abStarts = <<>>
    /\ abPrev = "Stopped"
    /\ buyerState = "Stopped"

----------------------------------------------------------------------------
(* Properties of purchaseTicket and revokeTickets (checked under SpecTicket) *)

PtReturned == pc = "done" /\ ptResult.returned

PtIsInvalidParameter ==
    /\ ptResult.err.type = "rpc"
    /\ ptResult.err.code = "ErrRPCInvalidParameter"

\* a validation failure the claim lists: unknown account, negative minconf,
\* bad address, pool address without pool fee, invalid pool fee
PtOtherFailure ==
    \/ ptCmd.fromAccount # "default"
    \/ ~ptCmd.minConf.nil /\ ptCmd.minConf.val < 0
    \/ \E a \in {"ticketAddress", "poolAddress"} :
          ~ptCmd[a].nil /\ ptCmd[a].str \notin {"", "DsP2PKH", "DcP2SH"}
    \/ /\ ~ptCmd.poolAddress.nil /\ ptCmd.poolAddress.str # ""
       /\ (ptCmd.poolFees.nil \/ ptCmd.poolFees.val < 1
              \/ ptCmd.poolFees.val > 10000)

\* C15: with a wallet loaded, a spend limit that is not positive is rejected
\* with invalid-parameter; on that or any other validation failure no ticket
\* purchase is requested from the wallet.
C15_PositiveSpendLimit ==
    PtReturned =>
        /\ (walletLoaded /\ ~ptCmd.spendLimit.nan /\ ptCmd.spendLimit.coins <= 0) =>
              /\ PtIsInvalidParameter
              /\ ptPurchases = <<>>
        /\ PtOtherFailure =>
              /\ ptResult.err.type # "nil"
              /\ ptPurchases = <<>>

RvReturned == pc = "done" /\ rvResult.returned

\* C16 as stated: every call invokes exactly one revocation path, the
\* trusted one when the backend yields a consensus RPC client and the
\* expiry-only one otherwise, and returns that path's outcome.
C16_Original ==
    RvReturned =>
        /\ Len(rvCalls) = 1
        /\ rvCalls[1].path = (IF backend = "rpc" THEN "RevokeTickets"
                              ELSE "RevokeExpiredTickets")
        /\ rvResult.err = rvCalls[1].err

\* C16 (amended): every call that finds a wallet loaded invokes exactly one
\* revocation path, chosen as above, and returns that path's outcome (no
\* error of the handler's own); a call without a wallet invokes none.
C16_OneRevocationPath ==
    RvReturned =>
        /\ walletLoaded =>
              /\ Len(rvCalls) = 1
              /\ rvCalls[1].path = (IF backend = "rpc" THEN "RevokeTickets"
                                    ELSE "RevokeExpiredTickets")
              /\ rvResult.err = rvCalls[1].err
        /\ ~walletLoaded =>
              /\ rvCalls = <<>>
              /\ rvResult.err = errUnloadedWallet

\* no consensus RPC client (an SPV backend): the expiry-only path ran, alone,
\* and the call returned no error
C16_Witness ==
    /\ RvReturned
    /\ walletLoaded
    /\ backend = "spv"
    /\ Len(rvCalls) = 1
    /\ rvCalls[1].path = "RevokeExpiredTickets"
    /\ rvResult.err.type = "nil"

----------------------------------------------------------------------------
(* Properties of help (checked under SpecHelp) *)

\* the callers between helpDescsMu.Lock() and the deferred Unlock()
HelpInside == {p \in HelpCallers :
                 hpc[p] \in {"check", "build", "lookup", "remote", "unlock"}}

\* C17: whatever the interleaving of help calls naming a method, the help
\* text map is built at most once, one caller at a time is between Lock and
\* Unlock, and every lookup reads the fully built map, never nil.
C17_HelpBuiltOnce ==
    /\ helpBuilds <= 1
    /\ (helpBuilds = 1) <=> (helpDescs = "full")
    /\ Cardinality(HelpInside) <= 1
    /\ \A p \in HelpInside : helpDescsMu = p
    /\ \A p \in HelpCallers :
          /\ hSeen[p] \in {"none", "full"}
          /\ hpc[p] \in {"lookup", "remote", "unlock"} => helpDescs = "full"
          /\ (hResult[p].returned /\ hCmd[p] # "") => hSeen[p] = "full"

\* two calls raced for the first use: the first holds the lock and has built
\* the map, the second, naming a method too, waits at Lock()
C17_Witness ==
    /\ helpBuilds = 1
    /\ helpDescsMu = 1
    /\ hpc[1] = "lookup"
    /\ hpc[2] = "lock"
    /\ hCmd[2] # ""

----------------------------------------------------------------------------
(* Cancellation (checked under SpecCancel) *)

\* C18: once the caller has cancelled while signRawTransaction was waiting
\* for outstanding previous-output lookups, the operation stops waiting: it
\* receives no further lookup, fails with the transport-class error of the
\* lookup, and w.SignTransaction is not invoked.
C18_CancellationPropagates ==
    (srtResult.returned /\ cancel.cancelled /\ cancel.at = "srt_recv"
       /\ cancel.pending > 0) =>
        /\ srtResult.err.type # "nil"
        /\ srtResult.err.msg = "vhcd.jsonrpc.gettxout"
        /\ signCalls = 0

----------------------------------------------------------------------------
(* Properties of the imports (checked under SpecImport) *)

ImpReturned == pc = "done" /\ impResult.returned

\* C19: the step of importPrivKey or importScript that starts the rescan is
\* the step that returns: the response is (nil, nil) and the rescan is still
\* running at that moment; and when a rescan ends later, in whatever way, the
\* response that was given stays as it was.
C19_RescanFireAndForget ==
    [][/\ (pc = "imp_rescan" /\ impSpawned' > 0) =>
             /\ pc' = "done"
             /\ impResult'.returned
             /\ impResult'.res.nil
             /\ impResult'.err.type = "nil"
             /\ rescans'[impSpawned'].state = "running"
       /\ (ImpReturned /\ pc' = pc /\ rescans' # rescans) =>
             impResult' = impResult]_vars

\* the import has answered, the process is shutting down, and the rescan the
\* import started is still in flight
C19_Witness ==
    /\ ImpReturned
    /\ impSpawned > 0
    /\ rescans[impSpawned].state = "running"
    /\ impResult.err.type = "nil"
    /\ shutdown

----------------------------------------------------------------------------
(* Rejections and wallet mutations (checked under SpecWalletOps) *)

\* redeemMultiSigOut, called directly without a destination, rejected the
\* malformed transaction hash
RoRejectedHash ==
    /\ caller = "rpc"
    /\ RoReturned
    /\ roCmd.address.nil
    /\ ~IsHashStr(roCmd.hash)
    /\ roResult.err.code = "ErrRPCInvalidParameter"

\* lockUnspent rejected a list that holds a malformed txid
LuRejectedTxid ==
    /\ pc = "done"
    /\ luResult.returned
    /\ luResult.err.type = "rpc"
    /\ \E i \in DOMAIN luCmd.transactions :
          ~IsHashStr(luCmd.transactions[i].txid)

\* C20: a request rejected for a malformed parameter has changed nothing in
\* the wallet: redeemMultiSigOut without a destination and with a malformed
\* hash has derived no internal address, and lockUnspent with a malformed
\* txid in its list has left the locked outpoints as they were.
C20_NoMutationBeforeRejection ==
    /\ RoRejectedHash => newAddrs = 0
    /\ LuRejectedTxid => lockedOutpoints = luBefore

----------------------------------------------------------------------------
(* Transport failures of the remote node (checked under SpecTransport) *)

\* a previous-output lookup of the signing request in flight failed in transport
LookupTransportFailed ==
    /\ srtResult.returned
    /\ \E k \in DOMAIN futures : futures[k].got = "err"

\* the forwarded request failed in transport: no answer of the remote node
PassthroughTransportFailed ==
    /\ PassedThrough
    /\ Len(forwarded) = 1
    /\ req.remote.err.type = "plain"

\* C21: a transport failure of the remote node during a previous-output
\* lookup of signRawTransaction, or during a passthrough request, reaches the
\* caller (through convertError) as an RPCError with the client-not-connected
\* code; the failed lookup ends the call before anything is signed, and the
\* forwarded request is sent once.
C21_TransportIsConnectivity ==
    /\ LookupTransportFailed =>
          /\ convertError(srtResult.err).type = "rpc"
          /\ convertError(srtResult.err).code = "ErrRPCClientNotConnected"
          /\ signCalls = 0
    /\ PassthroughTransportFailed =>
          /\ dispResult.err.type = "rpc"
          /\ dispResult.err.code = "ErrRPCClientNotConnected"
          /\ Len(forwarded) = 1

----------------------------------------------------------------------------
(* Account resolution (checked under SpecAccount) *)

\* the handler asked the wallet for an account that does not exist
AcUnknownAccount ==
    /\ pc = "done"
    /\ acResult.returned
    /\ acLookups # <<>>
    /\ AccountNumber(acCmd.account).err.type # "nil"

\* C22: whichever handler resolved the name of an account that does not
\* exist, the caller gets (through convertError) the account-not-found code,
\* a nil result, and the wallet has been asked to send nothing and to derive
\* no address.
C22_AccountNotFoundUniform ==
    AcUnknownAccount =>
        /\ convertError(acResult.err).code = "ErrRPCWalletInvalidAccountName"
        /\ acResult.res = "nil"
        /\ acSent = <<>>
        /\ acAddrs = 0

----------------------------------------------------------------------------
(* Odd-length hex payloads (checked under SpecImport) *)

\* importScript got as far as decoding a script of an odd number of hex
\* digits which decodes once a "0" is put in front of it
ImpOddHex ==
    /\ ImpReturned
    /\ impCmd.kind = "script"
    /\ importChecks([impCmd EXCEPT !.hex = <<"0">> \o impCmd.hex], walletLoaded,
                    backend).type = "nil"
    /\ Len(impCmd.hex) % 2 = 1
    /\ decodeHexStr(impCmd.hex).err.type = "nil"

\* C23: a hex payload with an odd number of digits is decoded as the same
\* string with one "0" in front, and is not rejected for its odd length: the
\* script importScript hands to the wallet is that decoding.
C23_OddHexRepaired ==
    ImpOddHex =>
        /\ impResult.err.code # "ErrRPCDecodeHexString"
        /\ \/ <<"script", decodeHexStr(impCmd.hex).bytes>> \in imported
           \/ impResult.err.type = "wallet"
           \/ impResult.err = errWalletUnlockNeeded

----------------------------------------------------------------------------
(* Publication by signRawTransactions (checked under SpecBatch) *)

BatReturnedOk == pc = "done" /\ batResult.returned /\ batResult.err.type = "nil"

\* the publish calls made for result i
PublishedFor(i) == {k \in DOMAIN batPublished : batPublished[k].i = i}

\* C24: only complete signing results are published, each at most once and
\* as the transaction that was signed; with send enabled every complete
\* result is published whatever became of the ones before it, and an entry's
\* Sent flag is true exactly when its publication succeeded; with send
\* disabled nothing is published and every Sent flag is false.
C24_PublishOnlyComplete ==
    /\ \A k \in DOMAIN batPublished :
          /\ batCmd.send
          /\ batResults[batPublished[k].i].complete
          /\ Serialize(batPublished[k].tx, batPublished[k].outs)
                = batResults[batPublished[k].i].hex
          /\ Cardinality(PublishedFor(batPublished[k].i)) = 1
    /\ BatReturnedOk =>
          /\ Len(batResult.res) = Len(batCmd.rawTxs)
          /\ \A i \in DOMAIN batResult.res :
                /\ batResult.res[i].signingResult = batResults[i]
                /\ batResult.res[i].sent <=>
                      \E k \in PublishedFor(i) : batPublished[k].err.type = "nil"
                /\ (batCmd.send /\ batResults[i].complete) => PublishedFor(i) # {}
    /\ ~batCmd.send => batPublished = <<>>

\* two complete transactions and send enabled: the first publication failed,
\* the second was made all the same and succeeded
C24_Witness ==
    /\ BatReturnedOk
    /\ batCmd.send
    /\ Len(batPublished) = 2
    /\ batPublished[1].err.type # "nil"
    /\ batPublished[2].err.type = "nil"
    /\ ~batResult.res[1].sent
    /\ batResult.res[2].sent

----------------------------------------------------------------------------
(* addMultiSigAddress and the imported scripts (checked under SpecMultiSig) *)

\* C25: an addMultiSigAddress call that fails with "disconnected from
\* network" leaves the wallet's imported scripts as they were, and a script
\* is imported by a call only if that call registers its address with the
\* backend's transaction filter.
C25_NoImportWithoutFilter ==
    (pc = "done" /\ amResult.returned) =>
        /\ amResult.err = errNoNetwork => p2shScripts = amBefore
        /\ p2shScripts # amBefore => amFiltered # <<>>

----------------------------------------------------------------------------
(* Lookups left behind by signRawTransaction (checked under SpecSign) *)

\* C26: when signRawTransaction has returned, with a result or with an
\* error, every previous-output lookup it issued has been received.
C26_NoAbandonedLookup ==
    srtResult.returned => PendingLookups = {}

----------------------------------------------------------------------------
(* Local methods and the remote node (checked under SpecRouting) *)

\* the help handler of the dispatched request is asking the remote node
HelpAsksRemote == pc = "disp_help" /\ hpc[1] = "remote"

\* C27 as stated: a request for a registered method is served by the local
\* handler and no request of it reaches the remote node, neither through the
\* passthrough closure nor from the handler.
C27_Original ==
    Registered =>
        /\ forwarded = <<>>
        /\ ~HelpAsksRemote

\* C27: the dispatcher never passes a registered method through, whatever
\* the backend, the parse and the handler's outcome: the handler is invoked
\* when the payload parses and nothing is when it does not; only
\* unregistered methods are forwarded.  The help handler alone asks the
\* remote node on its own, for a method it has no text for, and only over a
\* consensus RPC client.
C27_LocalNeverPassedThrough ==
    /\ Registered => forwarded = <<>>
    /\ forwarded # <<>> => (~Registered /\ handlerCalls = <<>>)
    /\ handlerCalls # <<>> => Registered
    /\ ServedLocally =>
          IF UnmarshalCmd(req.method, req.params).err
          THEN handlerCalls = <<>> /\ dispResult.err = ErrRPCInvalidRequest
          ELSE handlerCalls = <<handlers[req.method].fn>>
    /\ HelpAsksRemote =>
          /\ req.method = "help"
          /\ backend = "rpc"
          /\ ~HasLocalHelp(helpDescs, hCmd[1])

\* a help request for a method without local text, served locally with the
\* text the remote node gave
C27_Witness ==
    /\ ServedLocally
    /\ req.method = "help"
    /\ backend = "rpc"
    /\ forwarded = <<>>
    /\ handlerCalls = <<"help">>
    /\ dispResult.res = "chain help"

----------------------------------------------------------------------------
(* help and the remote node (checked under SpecHelp) *)

\* C28: a help call that is asking the remote node does not hold
\* helpDescsMu, so no help call for a locally documented method waits at
\* Lock() behind it.
C28_LockReleasedBeforeRemote ==
    \A p \in HelpCallers :
        hpc[p] = "remote" =>
            /\ helpDescsMu # p
            /\ \A q \in HelpCallers \ {p} :
                  (hpc[q] = "lock" /\ hCmd[q] = "getbalance") =>
                      MuFree(helpDescsMu)

----------------------------------------------------------------------------
(* Imports, the backend and the rescan (checked under SpecImport) *)

\* the import request asked for a rescan, or left it to the default, and no
\* network backend is attached
ImpRescanNoBackend == RescanWanted(impCmd) /\ backend = "none"

\* the rescan of this request follows a new import made with rescan requested;
\* an item already held, or a locked wallet, starts none
ImpRescanOnlyAfterNewImport ==
    /\ impSpawned > 0 =>
          /\ RescanWanted(impCmd)
          /\ ImportItem(impCmd) \in imported \ impBefore
    /\ (ImpReturned /\ ImportItem(impCmd) \in impBefore) => impSpawned = 0
    /\ (ImpReturned /\ impResult.err = errWalletUnlockNeeded) =>
          (impSpawned = 0 /\ imported = impBefore)

\* C29 as stated: with a rescan requested and no backend the import fails with
\* "disconnected from network" and imports nothing.
C29_Original ==
    /\ (ImpReturned /\ ImpRescanNoBackend) =>
          (impResult.err = errNoNetwork /\ imported = impBefore)
    /\ ImpRescanOnlyAfterNewImport

\* C29: with a wallet loaded, a rescan requested and no backend, the import
\* fails with "disconnected from network" and imports nothing; without a
\* wallet it fails with the wallet-not-loaded error and imports nothing; a
\* rescan is started only after a new import made with rescan requested.
C29_NoBackendBeforeImport ==
    /\ (ImpReturned /\ ImpRescanNoBackend) =>
          /\ impResult.err = IF walletLoaded THEN errNoNetwork
                             ELSE errUnloadedWallet
          /\ imported = impBefore
          /\ impSpawned = 0
    /\ ImpRescanOnlyAfterNewImport

\* a key was imported by an earlier request; this one, for a new script with
\* the default rescan and no backend, was turned away
C29_Witness ==
    /\ ImpReturned
    /\ walletLoaded
    /\ ImpRescanNoBackend
    /\ impCmd.kind = "script"
    /\ ~HexDecodeString(impCmd.hex).err /\ impCmd.hex # <<>>
    /\ impResult.err = errNoNetwork
    /\ imported # {}
    /\ ImportItem(impCmd) \notin imported

----------------------------------------------------------------------------
(* The reserved account name (checked under SpecNaming) *)

\* the handler has answered a request that asks for the name "*"
NaReservedAnswered == naResult.returned /\ naCmd.new = "*"

\* no account of the wallet is named "*"
NoReservedAccount == "*" \notin NamesOf(accounts)

\* C30 as stated: no account is named "*", and a request for that name is
\* answered with an invalid-parameter error before any wallet call.
C30_Original ==
    /\ NoReservedAccount
    /\ NaReservedAnswered =>
          (naResult.err.code = "ErrRPCInvalidParameter" /\ naCalls = <<>>)

\* C30: no account is named "*"; with a wallet loaded a request for that name
\* is answered with the reserved-name invalid-parameter error, and without a
\* wallet with the wallet-not-loaded error, in both cases before any wallet
\* call.
C30_ReservedNameRejected ==
    /\ NoReservedAccount
    /\ NaReservedAnswered =>
          /\ naResult.err = IF walletLoaded THEN errReservedAccountName
                            ELSE errUnloadedWallet
          /\ naCalls = <<>>

\* a second account exists and a renameaccount that would name it "*" was
\* turned away
C30_Witness ==
    /\ NaReservedAnswered
    /\ walletLoaded
    /\ naCmd.method = "renameaccount"
    /\ naCmd.old = "savings"
    /\ "savings" \in NamesOf(accounts)
    /\ naResult.err = errReservedAccountName

====
